---- MODULE Spec2Model ----
(***************************************************************************)
(* Location resolution engine of rain-on-trump (backend/app).              *)
(*                                                                         *)
(* Time is an integer number of seconds on the America/New_York wall       *)
(* clock (second 0 is a local midnight; the UTC offset and DST are folded  *)
(* into the clock).  Coordinates are named places: the model never needs   *)
(* more of a lat/lon pair than its identity and, for the schedule aliases, *)
(* the region calendar_service._get_region computes from it.               *)
(*                                                                         *)
(* A confidence is kept as an exact rational with denominator ConfScale:   *)
(* the stored number is confidence * ConfScale.  The flight and arrival    *)
(* adapters truncate with int(), the schedule branch of current_coords     *)
(* does not, so its value is in general not a whole number.                *)
(***************************************************************************)
EXTENDS Integers, Sequences, FiniteSets, TLC

\* ------------------------------------------------------------------------
\* Bounds of the model
\* ------------------------------------------------------------------------
MaxTicks == 2        \* clock advances per behaviour
MaxEvents == 2       \* schedule items in one feed download

\* ------------------------------------------------------------------------
\* Program constants
\* ------------------------------------------------------------------------
AIRBORNE_WINDOW_SEC == 600
GROUNDED_WINDOW_SEC == 1200
AIRBORNE_CONFIDENCE_BASE == 95
AIRBORNE_CONFIDENCE_MIN == 75
GROUNDED_CONFIDENCE_BASE == 90
GROUNDED_CONFIDENCE_MIN == 70
FLIGHT_CACHE_SEC == 300
FRESH_WINDOW_SEC == 2400
ADSB_CACHE_SEC == 60
CACHE_SEC == 900
NEWS_CACHE_SEC == 300
TFR_CACHE_SEC == 300
GEOCODE_CACHE_TTL_S == 900
CAL_BASE_CONF == 70
CAL_MIN_CONF == 30
CAL_WINDOW_H == 72
PAST_HOURS == 36
FUTURE_HOURS == 24
OVERNIGHT_CONF == 58
TFR_CONF == 40
NEWS_CONF == 35
TFR_BONUS == 10
TFR_BONUS_CAP == 95
MAX_DAYS == 7
ARRIVAL_BASE_CONF == 30
ARRIVAL_MIN_CONF == 10
ARRIVAL_DECAY_PER_DAY == 3
DAY_SEC == 86400
HOUR_SEC == 3600
TFR_ENABLED == FALSE
DT_MIN == -1000000000

\* one confidence point, in the stored unit: the schedule decay loses
\* (CAL_BASE_CONF - CAL_MIN_CONF) points over CAL_WINDOW_H hours, i.e. one
\* point every 6480 seconds, so every value the code computes from a whole
\* number of seconds is a whole multiple of 1/ConfScale
ConfScale == (CAL_WINDOW_H * HOUR_SEC) \div (CAL_BASE_CONF - CAL_MIN_CONF)

\* ------------------------------------------------------------------------
\* Python values
\* ------------------------------------------------------------------------
None == [none |-> TRUE]          \* Python None
Unset == [unset |-> TRUE]        \* a local not assigned yet in this call

Min(a, b) == IF a <= b THEN a ELSE b
Max(a, b) == IF a >= b THEN a ELSE b

\* an int where the code may also hold None
Some(x) == [some |-> x]

\* int(x) for the rational num/den, den > 0: truncation toward zero
IntTrunc(num, den) == IF num >= 0 THEN num \div den ELSE -((-num) \div den)
SomeTrunc(num, den) == Some(IntTrunc(num, den))

\* ------------------------------------------------------------------------
\* flight_service.calculate_confidence
\* ------------------------------------------------------------------------
\* age_minutes = age_seconds / 60, so "age_minutes <= 5" is age_seconds <= 300
\* and int(BASE - (age_minutes - 5) / 5 * (BASE - MIN)) is the truncated
\* quotient below; the result is None (too old) or Some(int)
calculate_confidence(age_seconds, is_airborne) ==
  IF is_airborne
  THEN IF age_seconds > AIRBORNE_WINDOW_SEC
       THEN None
       ELSE IF age_seconds <= 5 * 60
            THEN Some(AIRBORNE_CONFIDENCE_BASE)
            ELSE SomeTrunc(AIRBORNE_CONFIDENCE_BASE * (5 * 60)
                          - (age_seconds - 5 * 60)
                            * (AIRBORNE_CONFIDENCE_BASE - AIRBORNE_CONFIDENCE_MIN),
                          5 * 60)
  ELSE IF age_seconds > GROUNDED_WINDOW_SEC
       THEN None
       ELSE IF age_seconds <= 10 * 60
            THEN Some(GROUNDED_CONFIDENCE_BASE)
            ELSE SomeTrunc(GROUNDED_CONFIDENCE_BASE * (10 * 60)
                          - (age_seconds - 10 * 60)
                            * (GROUNDED_CONFIDENCE_BASE - GROUNDED_CONFIDENCE_MIN),
                          10 * 60)

\* ------------------------------------------------------------------------
\* What an outbound request can come back with
\* ------------------------------------------------------------------------
FeedFailures == {"timeout", "connect_error", "http_status", "malformed"}
Failed == [kind : {"fail"}, why : FeedFailures]

\* a TTL cache slot as the _memo decorators keep it: (timestamp, value);
\* a missing key reads as (datetime.min, None)
EmptySlot == [ts |-> DT_MIN, val |-> None]
Fresh(slot, t, seconds) == t - slot.ts < seconds

\* ------------------------------------------------------------------------
\* Flight feed: flight_service / adsbfi_service
\* ------------------------------------------------------------------------
Statuses == {"airborne", "grounded"}
\* age of the reported position when the tracker is queried (seconds)
PlaneAges == {240, 900, 1500}
PlaneReadings == [kind : {"ok"}, status : Statuses, age : PlaneAges]
OpenSkyOutcomes == Failed \cup PlaneReadings
AdsbOutcomes == Failed \cup PlaneReadings

\* _opensky_state: every failure is caught inside _fetch and gives None; a
\* state vector survives only if calculate_confidence accepts its age
opensky_state(o, t) ==
  IF o.kind = "fail"
  THEN None
  ELSE LET confidence == calculate_confidence(o.age, o.status = "airborne")
       IN IF confidence = None
          THEN None
          ELSE [status |-> o.status, ts |-> t - o.age, pos |-> "jet",
                confidence |-> confidence.some]

\* get_plane_state_adsb: raised is TRUE when the exception leaves the
\* function (logged_request re-raises network errors); a non-200 status or
\* undecodable JSON moves on to the next tail and ends in None.  The
\* snapshot carries no "confidence" key and is kept up to FRESH_WINDOW_SEC.
get_plane_state_adsb(o, t) ==
  IF o.kind = "fail"
  THEN [raised |-> o.why \in {"timeout", "connect_error"}, val |-> None]
  ELSE IF o.age > FRESH_WINDOW_SEC
       THEN [raised |-> FALSE, val |-> None]
       ELSE [raised |-> FALSE,
             val |-> [status |-> o.status, ts |-> t - o.age, pos |-> "jet"]]

\* plane_state.get("confidence", default)
PlaneConfidence(ps, default) ==
  IF "confidence" \in DOMAIN ps THEN ps.confidence ELSE default

\* ------------------------------------------------------------------------
\* Schedule feed: calendar_service
\* ------------------------------------------------------------------------
\* texts after _clean(); a key of PLACE_ALIASES is "in" a text of the model
\* exactly when the text is that key
PLACE_ALIASES ==
  << [key |-> "south lawn", pos |-> "WhiteHouse"],
     [key |-> "in-town pool call time", pos |-> "WhiteHouse"],
     [key |-> "mar-a-lago", pos |-> "MarALago"],
     [key |-> "trump national golf club bedminster", pos |-> "Bedminster"] >>
KeyIn(key, text) == key = text

\* first entry of the table, in table order, whose key is in the text
AliasLookup(text) ==
  LET hits == {i \in DOMAIN PLACE_ALIASES : KeyIn(PLACE_ALIASES[i].key, text)}
  IN IF hits = {}
     THEN None
     ELSE PLACE_ALIASES[CHOOSE i \in hits : \A j \in hits : i <= j]

IMPLICIT_LOCATION_SUMMARIES == {"in-town pool call time"}
SKIP_LOCATIONS == {"stakeout location"}

EventKinds ==
  { [location |-> "south lawn", summary |-> "remarks"],
    [location |-> "joe's diner, ohio", summary |-> "remarks"],
    [location |-> "", summary |-> "in-town pool call time"],
    [location |-> "south lawn", summary |-> "no public events scheduled"],
    [location |-> "mar-a-lago", summary |-> "remarks"],
    [location |-> "trump national golf club bedminster",
     summary |-> "remarks"] }
\* start of an item relative to the moment of the download (seconds):
\* four hours ago, a quarter of an hour ago, in ten hours
EventOffsets(k) ==
  IF k.location = "south lawn" /\ k.summary = "remarks"
  THEN {-14400, -900, 36000}
  ELSE IF k.location = "joe's diner, ohio" THEN {-14400}
  ELSE IF k.location \in {"mar-a-lago", "trump national golf club bedminster"}
  THEN {-14400, 36000}
  ELSE {-900}

Items(t) ==
  UNION { { [dtstart_utc |-> t + off, summary |-> k.summary,
             location |-> k.location] : off \in EventOffsets(k) }
          : k \in EventKinds }

\* the normalised list a successful download gives: at most MaxEvents
\* items in chronological order, no two at the same time
Feeds(t) ==
  UNION { { f \in [1..n -> Items(t)] :
              \A i, j \in 1..n : i < j => f[i].dtstart_utc < f[j].dtstart_utc }
          : n \in 0..MaxEvents }

SchedOutcomes(t) == Failed \cup { [kind |-> "ok", events |-> f] : f \in Feeds(t) }

\* _fetch_events: httpx.get, raise_for_status and json.loads are not
\* guarded, so every failure leaves the function as an exception
fetch_events(o) ==
  IF o.kind = "fail"
  THEN [raised |-> TRUE, val |-> << >>]
  ELSE [raised |-> FALSE, val |-> o.events]

has_effective_location(ev) ==
  ev.location # "" \/ ev.summary \in IMPLICIT_LOCATION_SUMMARIES

Within(ev, t, hours, past) ==
  LET delta == IF past THEN t - ev.dtstart_utc ELSE ev.dtstart_utc - t
  IN 0 <= delta /\ delta <= hours * HOUR_SEC

\* first index of S in the order list.sort(key) leaves (stable)
StableFirst(S, key) ==
  CHOOSE i \in S : \A j \in S : key[i] < key[j] \/ (key[i] = key[j] /\ i <= j)

current_event(t, events) ==
  LET idx == DOMAIN events
      recent == {i \in idx : Within(events[i], t, PAST_HOURS, TRUE)}
      recentLoc == {i \in recent : has_effective_location(events[i])}
      rkey == [i \in idx |-> t - events[i].dtstart_utc]
      upcoming == {i \in idx : Within(events[i], t, FUTURE_HOURS, FALSE)}
      upcomingLoc == {i \in upcoming : has_effective_location(events[i])}
      ukey == [i \in idx |-> events[i].dtstart_utc - t]
  IN IF recentLoc # {} THEN events[StableFirst(recentLoc, rkey)]
     ELSE IF recent # {} THEN events[StableFirst(recent, rkey)]
     ELSE IF upcomingLoc # {} THEN events[StableFirst(upcomingLoc, ukey)]
     ELSE IF upcoming # {} THEN events[StableFirst(upcoming, ukey)]
     ELSE None

\* ---- overnight base inference ------------------------------------------
OVERNIGHT_BASES ==
  << [region |-> "dc", pos |-> "WhiteHouse", name |-> "The White House"],
     [region |-> "fl", pos |-> "MarALago", name |-> "Mar-a-Lago"],
     [region |-> "nj", pos |-> "Bedminster",
      name |-> "Trump Nat'l Golf Club Bedminster"] >>

\* _get_region: the first base whose centre is less than 80 km away
\* (haversine evaluated on the coordinates of the alias table)
get_region(pos) ==
  CASE pos = "WhiteHouse" -> "dc"
    [] pos = "MarALago" -> "fl"
    [] pos = "Bedminster" -> "nj"
    [] OTHER -> "None"

\* hour of the day on the New York wall clock
LocalHour(t) == (t \div HOUR_SEC) % 24

\* _resolve_location_to_coords
resolve_location_to_coords(location) ==
  IF location = "" THEN None ELSE AliasLookup(location)

\* "for ev in events: ... break": the first item, in feed order, that passes
FirstIndex(S) == CHOOSE i \in S : \A j \in S : i <= j

\* an inference that does not compare the two regions
any_two_regions(evening_region, morning_region) == TRUE

\* line 311: evening_region and evening_region == morning_region
same_region(evening_region, morning_region) ==
  evening_region # "None" /\ evening_region = morning_region

get_overnight_base(t, events) ==
  LET hour == LocalHour(t)
      evening == {i \in DOMAIN events :
                    /\ LocalHour(events[i].dtstart_utc) >= 17
                    /\ 0 < t - events[i].dtstart_utc
                    /\ t - events[i].dtstart_utc <= 14 * HOUR_SEC
                    /\ resolve_location_to_coords(events[i].location) # None}
      morning == {i \in DOMAIN events :
                    /\ LocalHour(events[i].dtstart_utc) < 12
                    /\ 0 < events[i].dtstart_utc - t
                    /\ events[i].dtstart_utc - t <= 18 * HOUR_SEC
                    /\ resolve_location_to_coords(events[i].location) # None}
  IN IF ~(hour >= 21 \/ hour < 8) THEN None
     ELSE IF Len(events) = 0 THEN None
     ELSE IF evening = {} THEN None
     ELSE IF morning = {} THEN None
     ELSE LET evening_region ==
                get_region(resolve_location_to_coords(
                             events[FirstIndex(evening)].location).pos)
              morning_region ==
                get_region(resolve_location_to_coords(
                             events[FirstIndex(morning)].location).pos)
              bases == {b \in DOMAIN OVERNIGHT_BASES :
                          OVERNIGHT_BASES[b].region = evening_region}
          IN IF same_region(evening_region, morning_region)
             THEN LET base == OVERNIGHT_BASES[FirstIndex(bases)]
                  IN [pos |-> base.pos, name |-> base.name]
             ELSE None

\* a reason tag that ignores the base
reason_overnight_dc_only(name) == "overnight_dc"

\* lines 906-912: the reason tag is read off the base's name
OvernightReason(name) ==
  IF name = "The White House" THEN "overnight_dc"
  ELSE IF name = "Mar-a-Lago" THEN "overnight_fl"
  ELSE "overnight_nj"

\* ------------------------------------------------------------------------
\* Confidence of the candidates built in current_coords
\* ------------------------------------------------------------------------
Pts(c) == c * ConfScale

\* cal_conf = CAL_BASE_CONF - (CAL_BASE_CONF - CAL_MIN_CONF)
\*              * min(age_cal, CAL_WINDOW_H) / CAL_WINDOW_H, age_cal in hours
\* and possibly negative; the division is exact in the stored unit
cal_conf(age_s) ==
  Pts(CAL_BASE_CONF)
  - Min(age_s, CAL_WINDOW_H * HOUR_SEC)
    * (((CAL_BASE_CONF - CAL_MIN_CONF) * ConfScale) \div (CAL_WINDOW_H * HOUR_SEC))

\* faulty variant of select_highest_confidence: the last of equal maxima
\* (what max() over the reversed list would keep); C5_TieKeepsSchedule
\* tells it from the code
select_last_of_highest(candidates) ==
  IF Len(candidates) = 0
  THEN None
  ELSE candidates[CHOOSE i \in DOMAIN candidates :
                    \A j \in DOMAIN candidates :
                      \/ candidates[j].confidence < candidates[i].confidence
                      \/ /\ candidates[j].confidence = candidates[i].confidence
                         /\ j <= i]

\* select_highest_confidence: max() keeps the first of equal maxima
select_highest_confidence(candidates) ==
  IF Len(candidates) = 0
  THEN None
  ELSE candidates[CHOOSE i \in DOMAIN candidates :
                    \A j \in DOMAIN candidates :
                      \/ candidates[j].confidence < candidates[i].confidence
                      \/ /\ candidates[j].confidence = candidates[i].confidence
                         /\ i <= j]

\* faulty variant of _plane_newer_than_event: ">=" where the code has ">";
\* C3_GroundedIffNewer tells it from the code
plane_newer_or_equal(plane_state, event) ==
  IF plane_state = None \/ event = None
  THEN TRUE
  ELSE plane_state.ts >= event.dtstart_utc

\* a freshness rule that keeps every grounded position
plane_always_newer(plane_state, event) == TRUE

\* _plane_newer_than_event
plane_newer_than_event(plane_state, event) ==
  IF plane_state = None \/ event = None
  THEN TRUE
  ELSE plane_state.ts > event.dtstart_utc

\* ------------------------------------------------------------------------
\* Arrival cache: arrival_cache.save / load
\* ------------------------------------------------------------------------
NoFile == [file |-> "absent"]
Corrupt == [file |-> "corrupt"]

\* a save that writes the two coordinates in the wrong order
save_lon_lat(pos, t) == [file |-> "ok", pos |-> <<"lon-lat", pos>>, ts |-> t]

save(pos, t) == [file |-> "ok", pos |-> pos, ts |-> t]

\* lines 80-87 of load: None when the record is older than max_days, else
\* max(10, 30 - int(age_days * 3))
arrival_confidence(age_seconds) ==
  IF age_seconds > MAX_DAYS * DAY_SEC
  THEN None
  ELSE Some(Max(ARRIVAL_MIN_CONF,
                ARRIVAL_BASE_CONF
                - IntTrunc(age_seconds * ARRIVAL_DECAY_PER_DAY, DAY_SEC)))

load(file, t) ==
  IF file = NoFile THEN None
  ELSE IF file = Corrupt THEN None
  ELSE LET confidence == arrival_confidence(t - file.ts)
       IN IF confidence = None
          THEN None
          ELSE [pos |-> file.pos,
                reason |-> "last_known",
                confidence |-> Pts(confidence.some)]

\* ------------------------------------------------------------------------
\* Geocoder: _smart_geocode with its result cache
\* ------------------------------------------------------------------------
GeoReplies == {"error", "empty", "hit"}
GeoOutcomes == [us : GeoReplies, intl : GeoReplies]
\* the keys _geocode_cache can hold: the location texts of the schedule
GeoQueries == {k.location : k \in EventKinds} \ {""}

\* US-restricted search first; an exception or an empty answer falls
\* through to the unrestricted search; its exception or empty answer is None
geocode_provider(o) ==
  IF o.us = "hit" THEN [pos |-> "GeoUS"]
  ELSE IF o.intl = "hit" THEN [pos |-> "GeoIntl"]
  ELSE None

\* val: what _smart_geocode returns; slot: the cache entry of the query
\* afterwards (an expired entry is deleted, only a result is stored);
\* called: the external geocoder was asked
smart_geocode(query, slot, o, t) ==
  IF query \in SKIP_LOCATIONS
  THEN [val |-> None, slot |-> slot, called |-> FALSE]
  ELSE IF slot # EmptySlot /\ Fresh(slot, t, GEOCODE_CACHE_TTL_S)
       THEN [val |-> slot.val, slot |-> slot, called |-> FALSE]
       ELSE LET r == geocode_provider(o)
            IN [val |-> r,
                slot |-> IF r # None THEN [ts |-> t, val |-> r] ELSE EmptySlot,
                called |-> TRUE]

\* ------------------------------------------------------------------------
\* Schedule candidate: current_coords, "2. Calendar event"
\* ------------------------------------------------------------------------
NoPublicIn(summ) == summ = "no public events scheduled"

\* a schedule branch that geocodes every location text
geocode_every_location(event) ==
  /\ event # None
  /\ ~NoPublicIn(event.summary)
  /\ event.location # ""

\* 2c is reached: "if desc and not coords_cal"
needs_geocode(event) ==
  /\ event # None
  /\ ~NoPublicIn(event.summary)
  /\ AliasLookup(event.location) = None
  /\ AliasLookup(event.summary) = None
  /\ event.location # ""

\* geocoded: the value _smart_geocode returned when it was called
calendar_candidate(event, t, geocoded) ==
  IF event = None THEN None
  ELSE IF NoPublicIn(event.summary) THEN None
  ELSE LET conf == cal_conf(t - event.dtstart_utc)
           onLocation == AliasLookup(event.location)
           onSummary == AliasLookup(event.summary)
       IN IF onLocation # None
          THEN [pos |-> onLocation.pos, confidence |-> conf,
                reason |-> "calendar_alias"]
          ELSE IF onSummary # None
          THEN [pos |-> onSummary.pos, confidence |-> conf,
                reason |-> "calendar_summary"]
          ELSE IF event.location # "" /\ geocoded # None
          THEN [pos |-> geocoded.pos, confidence |-> conf,
                reason |-> "calendar_geocode"]
          ELSE None

\* ------------------------------------------------------------------------
\* Airspace restrictions: _vip_json and the candidates built from it
\* ------------------------------------------------------------------------
TfrRecords ==
  { [coords |-> "TfrPlace", near_plane |-> TRUE],
    [coords |-> "TfrPlace", near_plane |-> FALSE],
    [coords |-> "unparseable", near_plane |-> FALSE] }
TfrOutcomes ==
  Failed \cup {[kind |-> "ok", recs |-> r] :
                 r \in {<< >>} \cup {<<x>> : x \in TfrRecords}}
\* with TFR_ENABLED false the function returns before any request is made
TfrDraws == IF TFR_ENABLED THEN TfrOutcomes ELSE {[kind |-> "not_requested"]}

vip_json(o) ==
  IF ~TFR_ENABLED THEN << >>
  ELSE IF o.kind = "fail" THEN << >>
  ELSE o.recs

\* the memo(300) wrapper around _vip_json
memo_vip_json(slot, o, t) ==
  IF Fresh(slot, t, TFR_CACHE_SEC)
  THEN [val |-> slot.val, slot |-> slot]
  ELSE [val |-> vip_json(o), slot |-> [ts |-> t, val |-> vip_json(o)]]

\* lines 862-869: some record parses and lies within 55 km of the jet
near_tfr(recs) ==
  \E i \in DOMAIN recs : recs[i].coords # "unparseable" /\ recs[i].near_plane

\* lines 1040-1056
tfr_candidate(vip_recs) ==
  IF Len(vip_recs) = 0 THEN None
  ELSE IF vip_recs[1].coords = "unparseable" THEN None
  ELSE [pos |-> vip_recs[1].coords, confidence |-> Pts(TFR_CONF),
        reason |-> "tfr_json"]

\* candidates = [c for c in [coords_cal, coords_tfr] if c is not None]
Candidates(coords_cal, coords_tfr) ==
  (IF coords_cal # None THEN <<coords_cal>> ELSE << >>)
  \o (IF coords_tfr # None THEN <<coords_tfr>> ELSE << >>)

\* ------------------------------------------------------------------------
\* News wire: gdelt_service.get_latest_location
\* ------------------------------------------------------------------------
\* fail: the request, raise_for_status or resp.json() raised (caught);
\* bad_shape: JSON that is not the expected mapping of articles (the
\* extraction code runs outside the try blocks); hit / nohit: a usable
\* dateline or none
NewsReplies == {"fail", "bad_shape", "hit", "nohit"}
NewsOutcomes == [narrow : NewsReplies, fallback : NewsReplies]

NewsProbe(reply) ==
  CASE reply = "hit" -> [raised |-> FALSE, val |-> [pos |-> "Dateline"]]
    [] reply = "nohit" -> [raised |-> FALSE, val |-> None]
    [] reply = "bad_shape" -> [raised |-> TRUE, val |-> None]
    [] OTHER -> [raised |-> FALSE, val |-> None]

get_latest_location(o) ==
  IF o.narrow = "fail" THEN NewsProbe(o.fallback) ELSE NewsProbe(o.narrow)

\* faulty variant of the tail of current_coords: the arrival cache is read
\* before the news wire; C4_PriorityOrder tells it from the code
arrival_before_news(news_coord, file, t) ==
  IF load(file, t) # None
  THEN load(file, t)
  ELSE IF news_coord # None
       THEN [pos |-> news_coord.pos, confidence |-> Pts(NEWS_CONF),
             reason |-> "newswire"]
       ELSE [unknown |-> TRUE, confidence |-> 0, reason |-> "unknown"]

\* steps 4, 5 and the terminal answer of current_coords: lines 1068-1102
news_or_later(news_coord, file, t) ==
  IF news_coord # None
  THEN [pos |-> news_coord.pos, confidence |-> Pts(NEWS_CONF),
        reason |-> "newswire"]
  ELSE IF load(file, t) # None
       THEN load(file, t)
       ELSE [unknown |-> TRUE, confidence |-> 0, reason |-> "unknown"]

\* ------------------------------------------------------------------------
\* Change detector state: _emit_state_change_events
\* ------------------------------------------------------------------------
\* event_service: a low-confidence warning is posted below this confidence,
\* at most once per cooldown
LOW_CONFIDENCE_THRESHOLD == 40
LOW_CONFIDENCE_COOLDOWN_SEC == 3600

\* event_service.emit_low_confidence: does the call post a warning at t
emit_low_confidence(tr, confidence, t) ==
  /\ ~(confidence >= Pts(LOW_CONFIDENCE_THRESHOLD))
  /\ ~(/\ tr.last_low_confidence_warning # None
       /\ t - tr.last_low_confidence_warning.some
            < LOW_CONFIDENCE_COOLDOWN_SEC)

\* a detector that reports a location change on every call
emitted_on_every_call(tr, coords, plane_state, t) ==
  IF tr.is_initializing
  THEN {}
  ELSE {"location_changed"}

\* lines 129-173: the events of a call once the start-up flag is cleared
transition_events(tr, coords, plane_state, t) ==
  (IF plane_state # None /\ plane_state.status = "airborne"
      /\ tr.prev_flight_status # "airborne"
   THEN {"flight_detected"} ELSE {})
  \cup
  (IF plane_state # None /\ plane_state.status = "grounded"
      /\ tr.prev_flight_status = "airborne"
   THEN {"landing_detected"} ELSE {})
  \cup
  (IF coords.reason # tr.prev_location_reason
   THEN {"location_changed"} ELSE {})
  \cup
  (IF emit_low_confidence(tr, coords.confidence, t)
   THEN {"low_confidence"} ELSE {})

\* a detector without the start-up guard
emitted_from_start_up(tr, coords, plane_state, t) ==
  transition_events(tr, coords, plane_state, t)

\* the events one call of _emit_state_change_events emits at time t
emitted_events(tr, coords, plane_state, t) ==
  IF tr.is_initializing
  THEN {}
  ELSE transition_events(tr, coords, plane_state, t)

\* the module globals after the call
emit_state_change_events(tr, coords, plane_state, t) ==
  [tr EXCEPT
     !.prev_flight_status =
        IF plane_state # None THEN plane_state.status ELSE @,
     !.prev_location_reason = coords.reason,
     !.last_low_confidence_warning =
        IF "low_confidence" \in emitted_events(tr, coords, plane_state, t)
        THEN Some(t) ELSE @]

\* ========================================================================
\* The state machine
\* ========================================================================
VARIABLES
  now,           \* the clock
  ticks,         \* clock advances so far
  pc,            \* where the current_coords call stands
  flightCache,   \* flight_service._cache["get_plane_state"]
  adsbCache,     \* adsbfi_service._cache["get_plane_state_adsb"]
  calCache,      \* the cache of calendar_service._fetch_events
  tfrCache,      \* location_service._cached["_vip_json"]
  newsCache,     \* gdelt_service._cache["get_latest_location"]
  geocodeCache,  \* location_service._geocode_cache
  arrivalFile,   \* last_arrival.json
  tracked,       \* _prev_flight_status, _prev_location_reason,
                 \* _is_initializing, _last_low_confidence_warning
  cyc,           \* locals of the current_coords call, and the flight
                 \* status and the winner's reason tag of the preceding
                 \* call (last_status, last_reason)
  result         \* how the last current_coords call ended

vars == <<now, ticks, pc, flightCache, adsbCache, calCache, tfrCache,
          newsCache, geocodeCache, arrivalFile, tracked, cyc, result>>

\* local wall-clock times the process may start at: 13:00 and 23:00
StartTimes == {910800, 946800}
\* clock advances between calls (seconds)
TickSteps == {240}

\* the flight status a call observed ("None" when it had no reading)
observed_status(plane_state) ==
  IF plane_state \in {None, Unset} THEN "None" ELSE plane_state.status

\* the reason tag of the winner a call returned ("None" when it raised)
winner_reason(res) ==
  IF res.kind = "returned" THEN res.coords.reason ELSE "None"

\* last_arrival.json survives restarts: what a start may find
ArrivalAtStart(t) ==
  { NoFile, Corrupt,
    [file |-> "ok", pos |-> "Apron", ts |-> t - MAX_DAYS * DAY_SEC + 240] }

Locals0 ==
  [plane_state |-> Unset, event |-> Unset, overnight_base |-> Unset,
   coords_cal |-> Unset, coords_tfr |-> Unset, news_coord |-> Unset,
   geocoder_called |-> FALSE,
   last_status |-> "None", last_reason |-> "None",
   world |-> Unset, first |-> Unset, serve |-> Unset,
   traced |-> FALSE, trace_log |-> << >>]

Init ==
  /\ now \in StartTimes
  /\ ticks = 0
  /\ pc = "idle"
  /\ flightCache = EmptySlot
  /\ adsbCache = EmptySlot
  /\ calCache = EmptySlot
  /\ tfrCache = EmptySlot
  /\ newsCache = EmptySlot
  /\ geocodeCache = [q \in GeoQueries |-> EmptySlot]
  /\ arrivalFile \in ArrivalAtStart(now)
  /\ tracked = [prev_flight_status |-> "None", prev_location_reason |-> "None",
                is_initializing |-> TRUE,
                last_low_confidence_warning |-> None]
  /\ cyc = Locals0
  /\ result = [kind |-> "none"]

\* "return coords": the change detector runs, then the value is handed back
Return(coords, plane_state) ==
  /\ result' = [kind |-> "returned", coords |-> coords,
                before |-> tracked,
                events |-> emitted_events(tracked, coords, plane_state, now)]
  /\ tracked' = emit_state_change_events(tracked, coords, plane_state, now)
  /\ pc' = "done"

\* an exception leaves current_coords
Raise(origin) ==
  /\ result' = [kind |-> "raised", origin |-> origin,
                before |-> tracked, events |-> {}]
  /\ pc' = "done"
  /\ UNCHANGED tracked

\* flight_service._memo: _cache[func.__name__] = (now, val)
memo_stamp_only(t, val) == [ts |-> t, val |-> None]

memo_entry(t, val) == [ts |-> t, val |-> val]

\* a feed that is not asked in this call answers nothing
NotRequested == [kind |-> "not_requested"]
NotCalled == [us |-> "not_called", intl |-> "not_called"]

\* trace_log.append(...), once per step name
Traced(trace_log, steps) == trace_log \o steps

\* lines 808-827: the entries every call starts with
PlaneTrace == <<"start", "plane">>

\* ---- lines 806-827: plane_raw = await asyncio.to_thread(get_plane_state)
\* get_plane_state behind its _memo(300); the adsb.fi fallback behind its
\* own _memo(60), which stores nothing when the call raises.
\* o, a: what OpenSky and adsb.fi answer if they are asked
PlaneStep(o, a) ==
  /\ pc = "idle"
  /\ pc' = "cascade"
  /\ IF Fresh(flightCache, now, FLIGHT_CACHE_SEC)
     THEN /\ cyc' = [cyc EXCEPT !.plane_state = flightCache.val,
                                        !.trace_log = PlaneTrace]
          /\ UNCHANGED <<flightCache, adsbCache>>
     ELSE LET state == opensky_state(o, now)
          IN IF state # None
             THEN /\ cyc' = [cyc EXCEPT !.plane_state = state,
                                        !.trace_log = PlaneTrace]
                  /\ flightCache' = memo_entry(now, state)
                  /\ UNCHANGED adsbCache
             ELSE IF Fresh(adsbCache, now, ADSB_CACHE_SEC)
                  THEN /\ cyc' = [cyc EXCEPT !.plane_state = adsbCache.val,
                                        !.trace_log = PlaneTrace]
                       /\ flightCache' = memo_entry(now, adsbCache.val)
                       /\ UNCHANGED adsbCache
                  ELSE LET call == get_plane_state_adsb(a, now)
                       IN /\ cyc' = [cyc EXCEPT !.plane_state = call.val,
                                        !.trace_log = PlaneTrace]
                          /\ flightCache' = memo_entry(now, call.val)
                          /\ adsbCache' = IF call.raised
                                          THEN adsbCache
                                          ELSE [ts |-> now, val |-> call.val]
  /\ UNCHANGED <<now, ticks, calCache, tfrCache, newsCache, geocodeCache,
                 arrivalFile, tracked, result>>

\* the answers that matter: those of the feeds the call does ask
OpenSkyDraws ==
  IF Fresh(flightCache, now, FLIGHT_CACHE_SEC)
  THEN {NotRequested} ELSE OpenSkyOutcomes

AdsbDraws(o) ==
  IF \/ Fresh(flightCache, now, FLIGHT_CACHE_SEC)
     \/ opensky_state(o, now) # None
     \/ Fresh(adsbCache, now, ADSB_CACHE_SEC)
  THEN {NotRequested} ELSE AdsbOutcomes

GetPlaneState ==
  \E o \in OpenSkyDraws : \E a \in AdsbDraws(o) : PlaneStep(o, a)

\* the entries steps 2 and 3 append: "calendar_event" always,
\* "geocode_context" when 2c is reached, "geocode_result" when the geocoder
\* gave something, "vip_json" when a TFR candidate was built
schedule_trace(event, geocoded, coords_tfr) ==
  <<"calendar_event">>
  \o (IF needs_geocode(event) THEN <<"geocode_context">> ELSE << >>)
  \o (IF needs_geocode(event) /\ geocoded # None
      THEN <<"geocode_result">> ELSE << >>)
  \o (IF coords_tfr # None THEN <<"vip_json">> ELSE << >>)

\* the entries steps 4 and 5 and the terminal answer append
news_trace(news_coord, file, t) ==
  <<"news_probe">>
  \o (IF news_coord # None THEN << >>
      ELSE IF load(file, t) # None THEN <<"last_known">>
      ELSE <<"unknown">>)

\* ---- lines 830-1066, once _fetch_events has given `events` -------------
\* g, o: what the geocoder and the TFR feed answer if they are asked
CascadeOn(events, g, o) ==
  LET plane_state == cyc.plane_state
      event == current_event(now, events)
  IN
  IF plane_state # None /\ plane_state.status = "airborne"
  THEN \* always trust an airborne snapshot
       /\ Return([pos |-> plane_state.pos, in_flight |-> TRUE,
                  confidence |-> Pts(PlaneConfidence(plane_state, 95)),
                  reason |-> "plane_air"], plane_state)
       /\ cyc' = [cyc EXCEPT !.event = event]
       /\ UNCHANGED <<tfrCache, geocodeCache, arrivalFile>>
  ELSE IF /\ plane_state # None
          /\ plane_state.status = "grounded"
          /\ plane_newer_than_event(plane_state, event)
  THEN \* grounded and newer than any calendar entry
       LET vip == memo_vip_json(tfrCache, o, now)
           near == near_tfr(vip.val)
           base_confidence == PlaneConfidence(plane_state, 90)
           confidence == IF near
                         THEN Min(TFR_BONUS_CAP, base_confidence + TFR_BONUS)
                         ELSE base_confidence
       IN /\ Return([pos |-> plane_state.pos, tfr_confirmed |-> near,
                     confidence |-> Pts(confidence),
                     reason |-> IF near THEN "plane_tfr" ELSE "plane_ground"],
                    plane_state)
          /\ arrivalFile' = save(plane_state.pos, now)
          /\ tfrCache' = vip.slot
          /\ cyc' = [cyc EXCEPT !.event = event,
                                !.trace_log = Traced(@, <<"plane_ground">>)]
          /\ UNCHANGED geocodeCache
  ELSE LET overnight_base == get_overnight_base(now, events)
       IN
       IF overnight_base # None
       THEN /\ Return([pos |-> overnight_base.pos,
                       confidence |-> Pts(OVERNIGHT_CONF),
                       reason |-> OvernightReason(overnight_base.name)],
                      plane_state)
            /\ cyc' = [cyc EXCEPT !.event = event,
                                  !.overnight_base = overnight_base,
                                  !.trace_log = Traced(@, <<"overnight_base">>)]
            /\ UNCHANGED <<tfrCache, geocodeCache, arrivalFile>>
       ELSE LET geo == IF needs_geocode(event)
                       THEN smart_geocode(event.location,
                                          geocodeCache[event.location], g, now)
                       ELSE [val |-> None, slot |-> EmptySlot,
                             called |-> FALSE]
                coords_cal == calendar_candidate(event, now, geo.val)
                vip == memo_vip_json(tfrCache, o, now)
                coords_tfr == tfr_candidate(vip.val)
                best_candidate ==
                  select_highest_confidence(Candidates(coords_cal, coords_tfr))
            IN /\ cyc' = [cyc EXCEPT !.event = event,
                                     !.overnight_base = None,
                                     !.coords_cal = coords_cal,
                                     !.coords_tfr = coords_tfr,
                                     !.geocoder_called = geo.called,
                                     !.trace_log =
                                        Traced(@, schedule_trace(event, geo.val,
                                                                 coords_tfr))]
               /\ geocodeCache' =
                    IF needs_geocode(event) /\ event.location \in GeoQueries
                    THEN [geocodeCache EXCEPT ![event.location] = geo.slot]
                    ELSE geocodeCache
               /\ tfrCache' = vip.slot
               /\ UNCHANGED arrivalFile
               /\ IF best_candidate # None
                  THEN Return(best_candidate, plane_state)
                  ELSE /\ pc' = "news"
                       /\ UNCHANGED <<result, tracked>>

\* ---- line 830: event = cal.current_event(), behind the 15-minute cache
\* of _fetch_events; nothing catches what _fetch_events raises.
\* so: what the schedule download gives if it is made
CascadeFrom(so, g, o) ==
  /\ pc = "cascade"
  /\ IF Fresh(calCache, now, CACHE_SEC)
     THEN /\ CascadeOn(calCache.val, g, o)
          /\ UNCHANGED calCache
     ELSE LET call == fetch_events(so)
          IN IF call.raised
             THEN /\ Raise("schedule_feed")
                  /\ UNCHANGED <<calCache, tfrCache, geocodeCache,
                                 arrivalFile, cyc>>
             ELSE /\ calCache' = [ts |-> now, val |-> call.val]
                  /\ CascadeOn(call.val, g, o)
  /\ UNCHANGED <<now, ticks, flightCache, adsbCache, newsCache>>

SchedDraws ==
  IF Fresh(calCache, now, CACHE_SEC)
  THEN {NotRequested} ELSE SchedOutcomes(now)

\* the schedule the call works on
EventsAfter(so) ==
  IF Fresh(calCache, now, CACHE_SEC) THEN calCache.val
  ELSE fetch_events(so).val

\* the call reaches "2c. Geocode fallback" on this schedule
ReachesGeocode(events) ==
  LET plane_state == cyc.plane_state
      event == current_event(now, events)
  IN /\ ~(plane_state # None /\ plane_state.status = "airborne")
     /\ ~(/\ plane_state # None
          /\ plane_state.status = "grounded"
          /\ plane_newer_than_event(plane_state, event))
     /\ get_overnight_base(now, events) = None
     /\ needs_geocode(event)

GeoDraws(events) ==
  IF ReachesGeocode(events) THEN GeoOutcomes ELSE {NotCalled}

Cascade ==
  /\ pc = "cascade"
  /\ \E so \in SchedDraws :
       \E g \in GeoDraws(EventsAfter(so)), o \in TfrDraws :
         CascadeFrom(so, g, o)

\* ---- lines 1068-1102: news wire, arrival cache, unknown ----------------
\* n: what the news wire answers if it is asked
NewsStep(n) ==
  /\ pc = "news"
  /\ IF Fresh(newsCache, now, NEWS_CACHE_SEC)
     THEN /\ cyc' = [cyc EXCEPT
                         !.news_coord = newsCache.val,
                         !.trace_log =
                            Traced(@, news_trace(newsCache.val, arrivalFile,
                                                 now))]
          /\ Return(news_or_later(newsCache.val, arrivalFile, now),
                    cyc.plane_state)
          /\ UNCHANGED newsCache
     ELSE LET call == get_latest_location(n)
          IN IF call.raised
             THEN /\ Raise("news_feed")
                  /\ UNCHANGED <<newsCache, cyc>>
             ELSE /\ newsCache' = [ts |-> now, val |-> call.val]
                  /\ cyc' = [cyc EXCEPT
                                 !.news_coord = call.val,
                                 !.trace_log =
                                    Traced(@, news_trace(call.val, arrivalFile,
                                                         now))]
                  /\ Return(news_or_later(call.val, arrivalFile, now),
                            cyc.plane_state)
  /\ UNCHANGED <<now, ticks, flightCache, adsbCache, calCache, tfrCache,
                 geocodeCache, arrivalFile>>

NewsDraws ==
  IF Fresh(newsCache, now, NEWS_CACHE_SEC)
  THEN {NotRequested} ELSE NewsOutcomes

NewsAndLater == \E n \in NewsDraws : NewsStep(n)

\* ---- mark_initialization_complete --------------------------------------
\* main.lifespan calls it once, after the start-up call of current_coords
\* has returned or raised and before the polling loop and the request
\* handlers make any further call
MarkInitializationComplete ==
  /\ pc = "done"
  /\ tracked.is_initializing
  /\ tracked' = [tracked EXCEPT !.is_initializing = FALSE]
  /\ UNCHANGED <<now, ticks, pc, flightCache, adsbCache, calCache, tfrCache,
                 newsCache, geocodeCache, arrivalFile, cyc, result>>

\* ---- time passes between two calls; the finished call's locals are gone,
\* last_status and last_reason remember the flight status it observed and
\* the reason tag of its winner --
Tick ==
  /\ pc = "done"
  /\ ~tracked.is_initializing
  /\ ticks < MaxTicks
  /\ \E d \in TickSteps : now' = now + d
  /\ ticks' = ticks + 1
  /\ pc' = "idle"
  /\ cyc' = [Locals0 EXCEPT
                !.last_status = observed_status(cyc.plane_state),
                !.last_reason = winner_reason(result)]
  /\ result' = [kind |-> "none"]
  /\ UNCHANGED <<flightCache, adsbCache, calCache, tfrCache, newsCache,
                 geocodeCache, arrivalFile, tracked>>

Next ==
  \/ GetPlaneState
  \/ Cascade
  \/ NewsAndLater
  \/ MarkInitializationComplete
  \/ Tick

Spec == Init /\ [][Next]_vars

\* ------------------------------------------------------------------------
\* Two consecutive calls of current_coords with the feeds, the geocoder and
\* the clock held fixed.  Calls made before (the warm-up) leave the caches,
\* the arrival file and the change detector in whatever state they leave
\* them.  From Hold on, cyc.world keeps what each feed answers, fixed the
\* first time the feed is asked; cyc.first keeps what the first call gave.
\* ------------------------------------------------------------------------
MaxWarmUps == 1

Open == [plane |-> Unset, sched |-> Unset, news |-> Unset]

Holding == cyc.world # Unset

\* the answer a feed gives when asked: the fixed one if it has answered
Held(fixed, draws) == IF fixed \in draws THEN {fixed} ELSE draws

WarmUp ==
  /\ ~Holding
  /\ \/ GetPlaneState
     \/ Cascade
     \/ NewsAndLater
     \/ ticks < MaxWarmUps /\ Tick

Hold ==
  /\ pc = "idle"
  /\ ~Holding
  /\ cyc' = [cyc EXCEPT !.world = Open]
  /\ UNCHANGED <<now, ticks, pc, flightCache, adsbCache, calCache, tfrCache,
                 newsCache, geocodeCache, arrivalFile, tracked, result>>

\* the trackers answer
PlaneAnswer ==
  /\ pc = "idle"
  /\ Holding
  /\ cyc.world.plane = Unset
  /\ \E o \in OpenSkyDraws : \E a \in AdsbDraws(o) :
       cyc' = [cyc EXCEPT !.world.plane = [o |-> o, a |-> a]]
  /\ UNCHANGED <<now, ticks, pc, flightCache, adsbCache, calCache, tfrCache,
                 newsCache, geocodeCache, arrivalFile, tracked, result>>

HeldGetPlaneState ==
  /\ pc = "idle"
  /\ Holding
  /\ cyc.world.plane # Unset
  /\ \E o \in Held(cyc.world.plane.o, OpenSkyDraws) :
       \E a \in Held(cyc.world.plane.a, AdsbDraws(o)) : PlaneStep(o, a)

\* the schedule feed, the geocoder and the TFR feed answer
SchedAnswer ==
  /\ pc = "cascade"
  /\ Holding
  /\ cyc.world.sched = Unset
  /\ \E so \in SchedDraws :
       \E g \in GeoDraws(EventsAfter(so)), o \in TfrDraws :
         cyc' = [cyc EXCEPT !.world.sched = [so |-> so, g |-> g, o |-> o]]
  /\ UNCHANGED <<now, ticks, pc, flightCache, adsbCache, calCache, tfrCache,
                 newsCache, geocodeCache, arrivalFile, tracked, result>>

HeldCascade ==
  /\ pc = "cascade"
  /\ Holding
  /\ cyc.world.sched # Unset
  /\ \E so \in Held(cyc.world.sched.so, SchedDraws) :
       \E g \in Held(cyc.world.sched.g, GeoDraws(EventsAfter(so))),
          o \in Held(cyc.world.sched.o, TfrDraws) :
         CascadeFrom(so, g, o)

\* the news wire answers
NewsAnswer ==
  /\ pc = "news"
  /\ Holding
  /\ cyc.world.news = Unset
  /\ \E n \in NewsDraws : cyc' = [cyc EXCEPT !.world.news = n]
  /\ UNCHANGED <<now, ticks, pc, flightCache, adsbCache, calCache, tfrCache,
                 newsCache, geocodeCache, arrivalFile, tracked, result>>

HeldNewsAndLater ==
  /\ pc = "news"
  /\ Holding
  /\ cyc.world.news # Unset
  /\ \E n \in Held(cyc.world.news, NewsDraws) : NewsStep(n)

\* the second call starts the moment the first has finished (after
\* lifespan's mark_initialization_complete when the first is the start-up
\* call)
Again ==
  /\ pc = "done"
  /\ ~tracked.is_initializing
  /\ Holding
  /\ cyc.first = Unset
  /\ pc' = "idle"
  /\ cyc' = [Locals0 EXCEPT
                !.last_status = observed_status(cyc.plane_state),
                !.last_reason = winner_reason(result),
                !.world = cyc.world,
                !.first = result]
  /\ result' = [kind |-> "none"]
  /\ UNCHANGED <<now, ticks, flightCache, adsbCache, calCache, tfrCache,
                 newsCache, geocodeCache, arrivalFile, tracked>>

TwiceNext ==
  \/ WarmUp
  \/ MarkInitializationComplete
  \/ Hold
  \/ PlaneAnswer
  \/ HeldGetPlaneState
  \/ SchedAnswer
  \/ HeldCascade
  \/ NewsAnswer
  \/ HeldNewsAndLater
  \/ Again

SpecTwice == Init /\ [][TwiceNext]_vars

\* ------------------------------------------------------------------------
\* The running server (main.py).  lifespan makes the start-up call, marks
\* the initialisation complete and starts the poller (_loop); from then on
\* the poller and the request handlers (is_it_raining, debug) each call
\* current_coords on the one event loop, and /plane_state.json calls
\* get_plane_state.  A call gives the loop away where it really awaits:
\* at `await asyncio.to_thread(get_plane_state)` and while the news wire is
\* fetched; the memoised get_plane_state runs on a worker thread of its own.
\* pc and the locals in cyc are those of the task in view (cyc.serve.me),
\* cyc.serve.other keeps the other task's; cyc.serve also keeps, in order,
\* the statuses the trackers gave (feed), the number of the reading each
\* task holds (seq), the newest reading the change detector has consumed,
\* the threads get_plane_state was invoked on, how many times its body
\* ran, and the tasks in the order their worker threads finished (woken):
\* the loop resumes them in that order.
\* ------------------------------------------------------------------------
POLL_INTERVAL_SEC == 300

\* the answers looked at here: some of those a feed can give
Among(draws, some) == IF draws \cap some = {} THEN draws ELSE draws \cap some

ServeTrackers ==
  {[kind |-> "fail", why |-> "timeout"],
   [kind |-> "ok", status |-> "airborne", age |-> 240],
   [kind |-> "ok", status |-> "grounded", age |-> 1500]}

ServeSchedules ==
  {so \in SchedOutcomes(now) :
     IF so.kind = "fail" THEN so.why = "timeout"
     ELSE /\ Len(so.events) <= 1
          /\ \A i \in DOMAIN so.events : so.events[i].location = ""}

ServeNews == {n \in NewsOutcomes : n.narrow = n.fallback
                                     /\ n.narrow \in {"fail", "hit", "nohit"}}

Serving == cyc.serve # Unset

\* lines 830-1102 of a call
CascadeAndLater ==
  \/ /\ pc = "cascade"
     /\ \E so \in Among(SchedDraws, ServeSchedules) :
          \E g \in GeoDraws(EventsAfter(so)), o \in TfrDraws :
            CascadeFrom(so, g, o)
  \/ \E n \in Among(NewsDraws, ServeNews) : NewsStep(n)

\* lifespan: the start-up call of current_coords
StartUpCall ==
  /\ ~Serving
  /\ \/ \E o \in Among(OpenSkyDraws, ServeTrackers) :
          \E a \in Among(AdsbDraws(o), ServeTrackers) : PlaneStep(o, a)
     \/ CascadeAndLater

\* the poller wakes from its sleep and a request comes in
Serve ==
  /\ pc = "done"
  /\ ~tracked.is_initializing
  /\ ~Serving
  /\ now' = now + POLL_INTERVAL_SEC
  /\ pc' = "ready"
  /\ cyc' = [Locals0 EXCEPT !.serve =
               [me |-> "poller", seq |-> 0,
                other |-> [me |-> "request", pc |-> "ready", seq |-> 0,
                           locals |-> Locals0],
                feed |-> <<observed_status(cyc.plane_state)>>,
                cached |-> 1,
                consumed |-> IF result.kind = "returned" THEN 1 ELSE 0,
                threads |-> {"worker"},
                fetches |-> 0,
                woken |-> << >>,
                routed |-> FALSE]]
  /\ result' = [kind |-> "none"]
  /\ UNCHANGED <<ticks, flightCache, adsbCache, calCache, tfrCache,
                 newsCache, geocodeCache, arrivalFile, tracked>>

\* the task in view runs on without giving the loop away: the news wire's
\* memo is fresh, so `await get_latest_location()` returns at once; or it
\* has just finished
HoldsLoop ==
  \/ pc = "news" /\ Fresh(newsCache, now, NEWS_CACHE_SEC)
  \/ pc = "done"

\* look at the other task
Swap ==
  /\ Serving
  /\ ~HoldsLoop
  /\ pc' = cyc.serve.other.pc
  /\ cyc' = [cyc.serve.other.locals EXCEPT !.serve =
               [cyc.serve EXCEPT
                  !.me = cyc.serve.other.me,
                  !.seq = cyc.serve.other.seq,
                  !.other = [me |-> cyc.serve.me, pc |-> pc,
                             seq |-> cyc.serve.seq,
                             locals |-> [cyc EXCEPT !.serve = Unset]]]]
  /\ UNCHANGED <<now, ticks, flightCache, adsbCache, calCache, tfrCache,
                 newsCache, geocodeCache, arrivalFile, tracked, result>>

\* line 811: await asyncio.to_thread(get_plane_state)
StartCall ==
  /\ Serving
  /\ pc = "ready"
  /\ pc' = "thread"
  /\ cyc' = [cyc EXCEPT !.serve.threads = @ \cup {"worker"}]
  /\ UNCHANGED <<now, ticks, flightCache, adsbCache, calCache, tfrCache,
                 newsCache, geocodeCache, arrivalFile, tracked, result>>

\* flight_service._memo on the worker thread: ts, val = _cache.get(...);
\* a fresh entry is handed back and the thread is done
MemoCheck ==
  /\ Serving
  /\ pc = "thread"
  /\ IF Fresh(flightCache, now, FLIGHT_CACHE_SEC)
     THEN /\ pc' = "cascade"
          /\ cyc' = [cyc EXCEPT !.plane_state = flightCache.val,
                                !.trace_log = PlaneTrace,
                                !.serve.seq = cyc.serve.cached,
                                !.serve.woken = Append(@, cyc.serve.me)]
     ELSE /\ pc' = "fetch"
          /\ UNCHANGED cyc
  /\ UNCHANGED <<now, ticks, flightCache, adsbCache, calCache, tfrCache,
                 newsCache, geocodeCache, arrivalFile, tracked, result>>

\* the value get_plane_state's body gives, and what it leaves in adsb.fi's
\* memo
plane_state_fetched(o, a) ==
  LET state == opensky_state(o, now)
  IN IF state # None
     THEN [val |-> state, adsb |-> adsbCache]
     ELSE IF Fresh(adsbCache, now, ADSB_CACHE_SEC)
     THEN [val |-> adsbCache.val, adsb |-> adsbCache]
     ELSE LET call == get_plane_state_adsb(a, now)
          IN [val |-> call.val,
              adsb |-> IF call.raised THEN adsbCache
                       ELSE [ts |-> now, val |-> call.val]]

\* flight_service._memo on the worker thread: val = func(*args, **kwargs)
Fetch ==
  /\ Serving
  /\ pc = "fetch"
  /\ pc' = "store"
  /\ \E o \in ServeTrackers :
       \E a \in (IF opensky_state(o, now) # None
                    \/ Fresh(adsbCache, now, ADSB_CACHE_SEC)
                 THEN {NotRequested} ELSE ServeTrackers) :
         LET got == plane_state_fetched(o, a)
         IN /\ adsbCache' = got.adsb
            /\ cyc' = [cyc EXCEPT
                         !.plane_state = got.val,
                         !.serve.seq = Len(cyc.serve.feed) + 1,
                         !.serve.feed = Append(@, observed_status(got.val)),
                         !.serve.fetches = @ + 1]
  /\ UNCHANGED <<now, ticks, flightCache, calCache, tfrCache, newsCache,
                 geocodeCache, arrivalFile, tracked, result>>

\* flight_service._memo on the worker thread: _cache[...] = (now, val);
\* return val, and the thread is done
Store ==
  /\ Serving
  /\ pc = "store"
  /\ pc' = "cascade"
  /\ flightCache' = memo_entry(now, cyc.plane_state)
  /\ cyc' = [cyc EXCEPT !.serve.cached = cyc.serve.seq,
                        !.trace_log = PlaneTrace,
                        !.serve.woken = Append(@, cyc.serve.me)]
  /\ UNCHANGED <<now, ticks, adsbCache, calCache, tfrCache, newsCache,
                 geocodeCache, arrivalFile, tracked, result>>

\* the other task's thread finished first and the loop has not resumed it
OtherResumesFirst ==
  /\ pc = "cascade"
  /\ cyc.serve.other.pc = "cascade"
  /\ cyc.serve.woken[1] = cyc.serve.other.me

\* the rest of the call, on the loop
ResumeCall ==
  /\ Serving
  /\ ~OtherResumesFirst
  /\ CascadeAndLater

\* the call is over: the change detector has consumed its reading
Finish ==
  /\ Serving
  /\ pc = "done"
  /\ pc' = "finished"
  /\ cyc' = [cyc EXCEPT !.serve.consumed =
               IF result.kind = "returned" THEN Max(@, cyc.serve.seq) ELSE @]
  /\ UNCHANGED <<now, ticks, flightCache, adsbCache, calCache, tfrCache,
                 newsCache, geocodeCache, arrivalFile, tracked, result>>

\* main.plane_state, the /plane_state.json handler: raw = get_plane_state()
\* on the loop itself, where _opensky_state's asyncio.run raises
\* RuntimeError, which get_plane_state catches before it asks adsb.fi
PlaneStateRoute ==
  /\ Serving
  /\ ~HoldsLoop
  /\ ~cyc.serve.routed
  /\ IF Fresh(flightCache, now, FLIGHT_CACHE_SEC)
     THEN /\ cyc' = [cyc EXCEPT !.serve.routed = TRUE,
                                !.serve.threads = @ \cup {"loop"}]
          /\ UNCHANGED <<flightCache, adsbCache>>
     ELSE \E a \in (IF Fresh(adsbCache, now, ADSB_CACHE_SEC)
                    THEN {NotRequested} ELSE ServeTrackers) :
            LET got == plane_state_fetched(
                         [kind |-> "fail", why |-> "connect_error"], a)
            IN /\ flightCache' = memo_entry(now, got.val)
               /\ adsbCache' = got.adsb
               /\ cyc' = [cyc EXCEPT
                            !.serve.routed = TRUE,
                            !.serve.threads = @ \cup {"loop"},
                            !.serve.cached = Len(cyc.serve.feed) + 1,
                            !.serve.feed = Append(@, observed_status(got.val)),
                            !.serve.fetches = @ + 1]
  /\ UNCHANGED <<now, ticks, pc, calCache, tfrCache, newsCache, geocodeCache,
                 arrivalFile, tracked, result>>

ServeNext ==
  \/ StartUpCall
  \/ MarkInitializationComplete /\ ~Serving
  \/ Serve
  \/ Swap
  \/ StartCall
  \/ MemoCheck
  \/ Fetch
  \/ Store
  \/ ResumeCall
  \/ Finish
  \/ PlaneStateRoute

SpecServe == Init /\ [][ServeNext]_vars

\* ------------------------------------------------------------------------
\* The diagnostic endpoints /debug and /debug.json (main.py): the handler
\* clears location_service._cached and weather_service._cached, then calls
\* current_coords(trace=[]).  One such request is watched, made some time
\* after the start-up call; cyc.traced tells the call it makes from others.
\* ------------------------------------------------------------------------
\* _loc_cache.clear(): _loc_cache is location_service._cached, the dict of
\* the memo around _vip_json
Debug ==
  /\ pc = "done"
  /\ ~tracked.is_initializing
  /\ ~cyc.traced
  /\ \E d \in TickSteps : now' = now + d
  /\ tfrCache' = EmptySlot
  /\ pc' = "idle"
  /\ cyc' = [Locals0 EXCEPT
                !.last_status = observed_status(cyc.plane_state),
                !.last_reason = winner_reason(result),
                !.traced = TRUE]
  /\ result' = [kind |-> "none"]
  /\ UNCHANGED <<ticks, flightCache, adsbCache, calCache, newsCache,
                 geocodeCache, arrivalFile, tracked>>

DebugNext ==
  \/ GetPlaneState
  \/ Cascade
  \/ NewsAndLater
  \/ MarkInitializationComplete
  \/ Debug

SpecDebug == Init /\ [][DebugNext]_vars

\* ========================================================================
\* select_highest_confidence applied to a schedule and a TFR candidate
\* ========================================================================
\* every variable the pure-function specifications do not use
Parked ==
  /\ now = 0
  /\ ticks = 0
  /\ flightCache = EmptySlot
  /\ adsbCache = EmptySlot
  /\ calCache = EmptySlot
  /\ tfrCache = EmptySlot
  /\ newsCache = EmptySlot
  /\ geocodeCache = [q \in GeoQueries |-> EmptySlot]
  /\ arrivalFile = NoFile
  /\ tracked = [prev_flight_status |-> "None", prev_location_reason |-> "None",
                is_initializing |-> TRUE,
                last_low_confidence_warning |-> None]

\* confidences tried: whole points around the one of a TFR candidate
SelectSpread == 5
SelectConfidences == (TFR_CONF - SelectSpread)..(TFR_CONF + SelectSpread)
ScheduleCandidates ==
  { [pos |-> "WhiteHouse", confidence |-> Pts(c), reason |-> "calendar_alias"]
      : c \in SelectConfidences }
TfrCandidates ==
  { [pos |-> "TfrPlace", confidence |-> Pts(c), reason |-> "tfr_json"]
      : c \in SelectConfidences }

SelectInit ==
  /\ Parked
  /\ pc = "select"
  /\ \E a \in ScheduleCandidates \cup {None}, b \in TfrCandidates \cup {None} :
       cyc = [Locals0 EXCEPT !.coords_cal = a, !.coords_tfr = b]
  /\ result = [kind |-> "none"]

\* lines 1061-1066: the candidates in the order schedule, TFR
SelectBest ==
  /\ pc = "select"
  /\ pc' = "selected"
  /\ LET best_candidate ==
           select_highest_confidence(Candidates(cyc.coords_cal, cyc.coords_tfr))
     IN result' = IF best_candidate # None
                  THEN [kind |-> "returned", coords |-> best_candidate]
                  ELSE [kind |-> "fell_through"]
  /\ UNCHANGED <<now, ticks, flightCache, adsbCache, calCache, tfrCache,
                 newsCache, geocodeCache, arrivalFile, tracked, cyc>>

SpecSelect == SelectInit /\ [][SelectBest]_vars

\* ========================================================================
\* The four confidence-decay functions, each applied to an age
\* ========================================================================
DecaySources == {"airborne", "grounded", "schedule", "arrival"}
\* ages tried per source: multiples of a step up to DecayGrid steps (one
\* minute, two minutes, six hours, sixteen hours); the schedule age is
\* negative for an upcoming event, which current_event hands out up to
\* FUTURE_HOURS ahead
DecayGrid == 12
DecayStep(src) ==
  CASE src = "airborne" -> 60
    [] src = "grounded" -> 2 * 60
    [] src = "schedule" -> 6 * HOUR_SEC
    [] src = "arrival" -> 16 * HOUR_SEC
DecayAges(src) ==
  { k * DecayStep(src) :
      k \in (IF src = "schedule" THEN -(FUTURE_HOURS \div 6) ELSE 0)..DecayGrid }

\* None or Some(points), the points in the stored unit
InPts(c) == IF c = None THEN None ELSE Some(Pts(c.some))

decay(src, age) ==
  CASE src = "airborne" -> InPts(calculate_confidence(age, TRUE))
    [] src = "grounded" -> InPts(calculate_confidence(age, FALSE))
    [] src = "schedule" -> Some(cal_conf(age))
    [] src = "arrival" -> InPts(arrival_confidence(age))

DecayInit ==
  /\ Parked
  /\ pc = "decay"
  /\ \E src \in DecaySources : \E age \in DecayAges(src) :
       cyc = [src |-> src, age |-> age]
  /\ result = [kind |-> "none"]

\* the function of the source at the age and one step later
DecayApply ==
  /\ pc = "decay"
  /\ pc' = "decayed"
  /\ result' = [kind |-> "decayed",
                at |-> decay(cyc.src, cyc.age),
                later |-> decay(cyc.src, cyc.age + DecayStep(cyc.src))]
  /\ UNCHANGED <<now, ticks, flightCache, adsbCache, calCache, tfrCache,
                 newsCache, geocodeCache, arrivalFile, tracked, cyc>>

SpecDecay == DecayInit /\ [][DecayApply]_vars

\* ========================================================================
\* Geocoding disambiguation: _disambiguate_results as _smart_geocode uses it
\* ========================================================================
\* Places lie on one meridian and are named by their distance in km from a
\* reference point on it: there the haversine distance of two places is the
\* difference of their marks, and the mean of their latitudes is the mean
\* of their marks.
MAX_TRAVEL_SPEED_KMH == 800
\* MIN_TIME_GAP_H = 0.1 hour, in seconds
MIN_TIME_GAP_SEC == 360
SUSPICIOUS_DISTANCE_KM == 500

Abs(x) == IF x < 0 THEN -x ELSE x

haversine_km(a, b) == Abs(a - b)

\* a feasibility filter that lets every candidate through
feasible_whatever_the_distance(result_km, context_events, target_dt) == TRUE

\* _is_physically_feasible: reachable from at least one context event;
\* distance <= time_gap_h * max_speed_kmh, both sides times 3600
is_physically_feasible(result_km, context_events, target_dt) ==
  IF Len(context_events) = 0
  THEN TRUE
  ELSE \E i \in DOMAIN context_events :
         LET gap == Abs(context_events[i].dt - target_dt)
             time_gap == IF gap < MIN_TIME_GAP_SEC THEN MIN_TIME_GAP_SEC
                         ELSE gap
         IN haversine_km(context_events[i].km, result_km) * HOUR_SEC
              <= time_gap * MAX_TRAVEL_SPEED_KMH

RECURSIVE SumKm(_)
SumKm(context_events) ==
  IF Len(context_events) = 0 THEN 0
  ELSE Head(context_events).km + SumKm(Tail(context_events))

\* distance from _compute_centroid(context) to a place, times the number
\* of context events (the mean is not formed, so nothing is rounded)
centroid_distance(context_events, km) ==
  Abs(Len(context_events) * km - SumKm(context_events))

\* the first listed result
first_listed(results) == results[1]

\* max(results, key=importance): the first of the highest
highest_importance(results) ==
  LET i == CHOOSE i \in DOMAIN results :
             /\ \A j \in DOMAIN results :
                  results[j].importance <= results[i].importance
             /\ \A j \in DOMAIN results :
                  results[j].importance = results[i].importance => i <= j
  IN results[i]

\* min(feasible_results, key=distance to the centroid): the first of the
\* nearest, among the indices kept
nearest_to_centroid(results, kept, context_events) ==
  LET d(i) == centroid_distance(context_events, results[i].km)
      i == CHOOSE i \in kept :
             /\ \A j \in kept : d(i) <= d(j)
             /\ \A j \in kept : d(j) = d(i) => i <= j
  IN results[i]

suspicious(context_events, km) ==
  centroid_distance(context_events, km)
    > SUSPICIOUS_DISTANCE_KM * Len(context_events)

\* _disambiguate_results: (best_result, alert)
disambiguate_results(results, context_events, target_dt) ==
  IF Len(results) = 0
  THEN [best |-> None, alert |-> "None"]
  ELSE IF Len(results) = 1
  THEN [best |-> results[1],
        alert |-> IF Len(context_events) > 0
                     /\ suspicious(context_events, results[1].km)
                  THEN "suspicious_distance" ELSE "None"]
  ELSE IF Len(context_events) = 0
  THEN [best |-> highest_importance(results), alert |-> "None"]
  ELSE LET feasible_results ==
             {i \in DOMAIN results :
                is_physically_feasible(results[i].km, context_events,
                                       target_dt)}
       IN IF feasible_results = {}
          THEN [best |-> highest_importance(results),
                alert |-> "all_infeasible"]
          ELSE LET best == nearest_to_centroid(results, feasible_results,
                                               context_events)
               IN [best |-> best,
                   alert |-> IF suspicious(context_events, best.km)
                             THEN "suspicious_distance" ELSE "None"]

\* _smart_geocode, lines 566-640: what it takes from a non-empty reply of
\* the US search (one result without context, up to five with context)
us_result(results, context_events, target_dt) ==
  LET use_disambiguation == Len(context_events) > 0
      call == disambiguate_results(results, context_events, target_dt)
  IN IF use_disambiguation /\ Len(results) > 1
     THEN [result |-> call.best, alert |-> call.alert]
     ELSE [result |-> results[1],
           alert |-> IF use_disambiguation
                        /\ call.alert = "suspicious_distance"
                     THEN "suspicious_distance" ELSE "None"]

\* candidates of one reply and context events tried
MaxCandidates == 2
MaxContext == 2
\* marks of the candidates and of the context events (km), importance in
\* hundredths, start of a context event relative to the event geocoded (s)
CandidateKm == {5, 600, 1700, 3100}
Importances == {30, 60}
ContextKm == {0, 1000}
ContextDt == {-7200, 120}

RawCandidates == [km : CandidateKm, importance : Importances]
ContextEvents == [km : ContextKm, dt : ContextDt]
Replies == UNION {[1..n -> RawCandidates] : n \in 1..MaxCandidates}
Contexts == UNION {[1..n -> ContextEvents] : n \in 0..MaxContext}

GeocodeInit ==
  /\ Parked
  /\ pc = "geocode"
  /\ \E results \in Replies : \E context_events \in Contexts :
       cyc = [results |-> results, context_events |-> context_events,
              target_dt |-> 0]
  /\ result = [kind |-> "none"]

GeocodeApply ==
  /\ pc = "geocode"
  /\ pc' = "geocoded"
  /\ result' = [kind |-> "geocoded",
                got |-> us_result(cyc.results, cyc.context_events,
                                  cyc.target_dt)]
  /\ UNCHANGED <<now, ticks, flightCache, adsbCache, calCache, tfrCache,
                 newsCache, geocodeCache, arrivalFile, tracked, cyc>>

SpecGeocode == GeocodeInit /\ [][GeocodeApply]_vars

\* ========================================================================
\* arrival_cache.load at record ages around the retention cutoff
\* ========================================================================
\* total_seconds() keeps the fraction of a second: ages are in milliseconds
MS == 1000

\* an age test on whole days: (now - ts).days > max_days
stale_by_whole_days(age_ms) ==
  age_ms \div (DAY_SEC * MS) > MAX_DAYS

\* line 81: age_seconds > max_days * 86400
stale(age_ms) ==
  age_ms > MAX_DAYS * DAY_SEC * MS

\* lines 80-95 of load for a readable file whose record has this age
load_aged(age_ms) ==
  IF stale(age_ms)
  THEN None
  ELSE [pos |-> "Apron",
        reason |-> "last_known",
        confidence |->
          Pts(Max(ARRIVAL_MIN_CONF,
                  ARRIVAL_BASE_CONF
                  - IntTrunc(age_ms * ARRIVAL_DECAY_PER_DAY, DAY_SEC * MS)))]

\* ages tried: the cutoff and ArrivalGrid tenths of a second on either side
ArrivalGrid == 60
ArrivalAges ==
  {MAX_DAYS * DAY_SEC * MS + k * 100 : k \in -ArrivalGrid..ArrivalGrid}

ArrivalInit ==
  /\ Parked
  /\ pc = "load"
  /\ \E age_ms \in ArrivalAges : cyc = [age_ms |-> age_ms]
  /\ result = [kind |-> "none"]

ArrivalLoad ==
  /\ pc = "load"
  /\ pc' = "loaded"
  /\ result' = [kind |-> "loaded", got |-> load_aged(cyc.age_ms)]
  /\ UNCHANGED <<now, ticks, flightCache, adsbCache, calCache, tfrCache,
                 newsCache, geocodeCache, arrivalFile, tracked, cyc>>

SpecArrival == ArrivalInit /\ [][ArrivalLoad]_vars

\* ------------------------------------------------------------------------
\* push_service.py: the stored WebPush subscriptions.  Every operation
\* loads the whole list from push_service.subs.json, changes it and writes
\* it back; main.py calls them from coroutines without awaiting in between,
\* so one operation runs at a time.  The list is kept in cyc.subs, the
\* clock (days, moving 200 at a time) in cyc.clock, the last operation in
\* result.
\* ------------------------------------------------------------------------
MAX_SUBSCRIPTIONS == 50000
DEFAULT_PREFERENCES ==
  [rain_start |-> TRUE, rain_stop |-> TRUE, thunderstorm |-> TRUE]

\* dict.get(key, default)
PrefGet(prefs, key, default) ==
  IF key \in DOMAIN prefs THEN prefs[key] ELSE default

\* current.update(preferences)
PrefMerge(current, preferences) ==
  [k \in DOMAIN current \cup DOMAIN preferences |->
     IF k \in DOMAIN preferences THEN preferences[k] ELSE current[k]]

\* sub.get("preferences", DEFAULT_PREFERENCES)
PrefsOf(sub) ==
  IF sub.preferences = None THEN DEFAULT_PREFERENCES ELSE sub.preferences

\* index of the first stored subscription with this endpoint, 0 if none
IndexOf(subs, endpoint) ==
  IF \E i \in DOMAIN subs : subs[i].endpoint = endpoint
  THEN CHOOSE i \in DOMAIN subs :
         /\ subs[i].endpoint = endpoint
         /\ \A j \in DOMAIN subs : subs[j].endpoint = endpoint => i <= j
  ELSE 0

\* [s for s in subs if s["endpoint"] != endpoint]
RECURSIVE Without(_, _)
Without(subs, endpoint) ==
  IF subs = << >> THEN << >>
  ELSE (IF Head(subs).endpoint # endpoint THEN <<Head(subs)>> ELSE << >>)
       \o Without(Tail(subs), endpoint)

\* every valid request starts a second entry
add_subscription_appending(subs, sub, t) ==
  IF ~sub.valid
  THEN [subs |-> subs, ret |-> [ok |-> FALSE, error |-> "Invalid subscription"]]
  ELSE [subs |-> Append(subs, [endpoint |-> sub.endpoint,
                               subscription_date |-> Some(t),
                               preferences |-> PrefsOf(sub),
                               last_delivery |-> None]),
        ret |-> [ok |-> TRUE, preferences |-> PrefsOf(sub)]]

add_subscription(subs, sub, t) ==
  IF ~sub.valid
  THEN [subs |-> subs, ret |-> [ok |-> FALSE, error |-> "Invalid subscription"]]
  ELSE LET i == IndexOf(subs, sub.endpoint)
       IN IF i # 0
          THEN [subs |-> [subs EXCEPT ![i].subscription_date = Some(t)],
                ret |-> [ok |-> TRUE, preferences |-> PrefsOf(subs[i])]]
          ELSE IF Len(subs) >= MAX_SUBSCRIPTIONS
          THEN [subs |-> subs,
                ret |-> [ok |-> FALSE, error |-> "Subscription limit reached"]]
          ELSE [subs |-> Append(subs, [endpoint |-> sub.endpoint,
                                       subscription_date |-> Some(t),
                                       preferences |-> PrefsOf(sub),
                                       last_delivery |-> None]),
                ret |-> [ok |-> TRUE, preferences |-> PrefsOf(sub)]]

update_preferences(subs, endpoint, preferences) ==
  LET i == IndexOf(subs, endpoint)
  IN IF i # 0
     THEN LET current == PrefMerge(PrefsOf(subs[i]), preferences)
          IN [subs |-> [subs EXCEPT ![i].preferences = current],
              ret |-> current]
     ELSE [subs |-> subs, ret |-> None]

remove_subscription(subs, endpoint) ==
  LET left == Without(subs, endpoint)
  IN [subs |-> left, ret |-> Len(left) < Len(subs)]

should_notify(sub, notification_type) ==
  LET prefs == PrefsOf(sub)
  IN IF notification_type = "None" THEN TRUE
     ELSE IF notification_type = "rain_start"
     THEN PrefGet(prefs, "rain_start", TRUE)
     ELSE IF notification_type = "rain_stop"
     THEN PrefGet(prefs, "rain_stop", TRUE)
     ELSE IF notification_type = "thunderstorm_start"
     THEN PrefGet(prefs, "rain_start", TRUE)
          /\ PrefGet(prefs, "thunderstorm", TRUE)
     ELSE IF notification_type = "thunderstorm_end"
     THEN PrefGet(prefs, "rain_stop", TRUE)
          /\ PrefGet(prefs, "thunderstorm", TRUE)
     ELSE TRUE

\* dead: the endpoints whose push service answers with a WebPushException
RECURSIVE Alive(_, _, _, _)
Alive(subs, notification_type, dead, t) ==
  IF subs = << >> THEN << >>
  ELSE LET sub == Head(subs)
           rest == Alive(Tail(subs), notification_type, dead, t)
       IN IF ~should_notify(sub, notification_type) THEN <<sub>> \o rest
          ELSE IF sub.endpoint \in dead THEN rest
          ELSE <<[sub EXCEPT !.last_delivery = Some(t)]>> \o rest

broadcast(subs, notification_type, dead, vapid, t) ==
  IF ~vapid
  THEN [subs |-> subs, ret |-> "WebPushException"]
  ELSE [subs |-> Alive(subs, notification_type, dead, t),
        ret |-> "sent"]

cleanup_keeps(sub, max_days, t) ==
  \/ sub.last_delivery # None
  \/ sub.subscription_date = None
  \/ sub.subscription_date.some >= t - max_days

RECURSIVE Kept(_, _, _)
Kept(subs, max_days, t) ==
  IF subs = << >> THEN << >>
  ELSE (IF cleanup_keeps(Head(subs), max_days, t)
        THEN <<Head(subs)>> ELSE << >>)
       \o Kept(Tail(subs), max_days, t)

cleanup_old_subscriptions(subs, max_days, t) ==
  LET kept == Kept(subs, max_days, t)
  IN [subs |-> kept, ret |-> Len(subs) - Len(kept)]

MaxPushDays == 1
Endpoints == {"https://push.example/a", "https://push.example/b"}
BrowserPreferences ==
  {None, [rain_start |-> FALSE, rain_stop |-> TRUE, thunderstorm |-> TRUE]}
SubscribeRequests ==
  [endpoint : Endpoints, valid : BOOLEAN, preferences : BrowserPreferences]
PreferenceUpdates ==
  {[rain_start |-> FALSE], [rain_start |-> TRUE, thunderstorm |-> FALSE]}
NotificationTypes == {"None", "rain_start", "thunderstorm_end", "other"}
CleanupDays == {100, 365}

PushInit ==
  /\ Parked
  /\ pc = "push"
  /\ cyc = [subs |-> << >>, clock |-> 0]
  /\ result = [kind |-> "none"]

PushDone(op, arg, call) ==
  /\ cyc' = [cyc EXCEPT !.subs = call.subs]
  /\ result' = [kind |-> op, arg |-> arg, before |-> cyc.subs,
                ret |-> call.ret]
  /\ UNCHANGED <<now, ticks, pc, flightCache, adsbCache, calCache, tfrCache,
                 newsCache, geocodeCache, arrivalFile, tracked>>

AddSubscription ==
  /\ pc = "push"
  /\ \E sub \in SubscribeRequests :
       PushDone("add_subscription", sub, add_subscription(cyc.subs, sub, cyc.clock))

UpdatePreferences ==
  /\ pc = "push"
  /\ \E e \in Endpoints, p \in PreferenceUpdates :
       PushDone("update_preferences", e, update_preferences(cyc.subs, e, p))

RemoveSubscription ==
  /\ pc = "push"
  /\ \E e \in Endpoints :
       PushDone("remove_subscription", e, remove_subscription(cyc.subs, e))

Broadcast ==
  /\ pc = "push"
  /\ \E n \in NotificationTypes, dead \in SUBSET Endpoints, vapid \in BOOLEAN :
       PushDone("broadcast", n, broadcast(cyc.subs, n, dead, vapid, cyc.clock))

CleanupOldSubscriptions ==
  /\ pc = "push"
  /\ \E d \in CleanupDays :
       PushDone("cleanup_old_subscriptions", d,
                cleanup_old_subscriptions(cyc.subs, d, cyc.clock))

DaysPass ==
  /\ pc = "push"
  /\ cyc.clock < MaxPushDays * 200
  /\ cyc' = [cyc EXCEPT !.clock = @ + 200]
  /\ result' = [kind |-> "none"]
  /\ UNCHANGED <<now, ticks, pc, flightCache, adsbCache, calCache, tfrCache,
                 newsCache, geocodeCache, arrivalFile, tracked>>

PushNext ==
  \/ AddSubscription
  \/ UpdatePreferences
  \/ RemoveSubscription
  \/ Broadcast
  \/ CleanupOldSubscriptions
  \/ DaysPass

SpecPush == PushInit /\ [][PushNext]_vars

\* ========================================================================
\* The outbound requests of one call of get_latest_location and of one
\* call of _smart_geocode that misses its cache
\* ========================================================================
\* the replies to the requests sent to GDELT, in the order they are sent:
\* the narrow probe, and the 7-day probe when the narrow one raised
\* a news wire client that repeats the narrow probe once before widening
news_requests_retrying(o) ==
  IF o.narrow = "fail" THEN <<o.narrow, o.narrow, o.fallback>>
  ELSE <<o.narrow>>

news_requests(o) ==
  IF o.narrow = "fail" THEN <<o.narrow, o.fallback>> ELSE <<o.narrow>>

\* the replies to the requests sent to Nominatim, in the order they are
\* sent: the US-restricted search, and the unrestricted one when the first
\* raised or found nothing
geocode_requests(o) ==
  IF o.us = "hit" THEN <<o.us>> ELSE <<o.us, o.intl>>

RequestsInit ==
  /\ Parked
  /\ pc = "requests"
  /\ \E n \in NewsOutcomes, g \in GeoOutcomes : cyc = [n |-> n, g |-> g]
  /\ result = [kind |-> "none"]

RequestsIssue ==
  /\ pc = "requests"
  /\ pc' = "issued"
  /\ result' = [kind |-> "issued",
                news |-> news_requests(cyc.n),
                news_coord |-> get_latest_location(cyc.n),
                geocoder |-> geocode_requests(cyc.g),
                geocoded |-> geocode_provider(cyc.g)]
  /\ UNCHANGED <<now, ticks, flightCache, adsbCache, calCache, tfrCache,
                 newsCache, geocodeCache, arrivalFile, tracked, cyc>>

SpecRequests == RequestsInit /\ [][RequestsIssue]_vars

\* ========================================================================
\* _smart_geocode on a cache miss, and the schedule candidate built from it
\* ========================================================================
\* us: the US-restricted search raised, or the list of results it gave;
\* intl: what the unrestricted search gives if it is made
UsReplies ==
  {[kind |-> "error"]}
  \cup {[kind |-> "ok", results |-> r] : r \in Replies \cup {<< >>}}
\* the one result of an unrestricted search that finds the place
IntlResult == [km |-> 3100, importance |-> 60]

\* a geocoder without the unrestricted second search
smart_geocode_us_only(us, intl, context_events, target_dt) ==
  IF us.kind = "ok" /\ Len(us.results) > 0
  THEN us_result(us.results, context_events, target_dt).result
  ELSE None

\* lines 566-732: the result of the US search (disambiguated) if it gave
\* any; else the result of the unrestricted search; None when that search
\* raised or found nothing
smart_geocode_fresh(us, intl, context_events, target_dt) ==
  IF us.kind = "ok" /\ Len(us.results) > 0
  THEN us_result(us.results, context_events, target_dt).result
  ELSE IF intl = "hit" THEN IntlResult
  ELSE None

\* the schedule item whose location is geocoded, a quarter of an hour old
GeocodedEvent ==
  [dtstart_utc |-> 0, summary |-> "remarks", location |-> "joe's diner, ohio"]

FailureInit ==
  /\ Parked
  /\ pc = "lookup"
  /\ \E us \in UsReplies, intl \in GeoReplies, context_events \in Contexts :
       cyc = [us |-> us, intl |-> intl, context_events |-> context_events,
              event |-> GeocodedEvent]
  /\ result = [kind |-> "none"]

\* lines 992-1035 of current_coords: geocoded = _smart_geocode(...), and
\* coords_cal when it gave something
FailureApply ==
  /\ pc = "lookup"
  /\ pc' = "looked_up"
  /\ LET geocoded == smart_geocode_fresh(cyc.us, cyc.intl, cyc.context_events,
                                         cyc.event.dtstart_utc)
     IN result' =
          [kind |-> "looked_up",
           geocoded |-> geocoded,
           coords_cal |->
             calendar_candidate(cyc.event, cyc.event.dtstart_utc + 900,
                                IF geocoded = None THEN None
                                ELSE [pos |-> geocoded.km])]
  /\ UNCHANGED <<now, ticks, flightCache, adsbCache, calCache, tfrCache,
                 newsCache, geocodeCache, arrivalFile, tracked, cyc>>

SpecFailure == FailureInit /\ [][FailureApply]_vars

\* ========================================================================
\* calendar_service.get_overnight_base on schedules listed in any order
\* ========================================================================
\* _fetch_events keeps the items in the order the feed lists them
MaxOvernightEvents == 3
\* the moment of the call, 23:00, and the starts of the items: 15:00,
\* 19:00 and 22:45 of that day, 09:00 and 10:00 of the next
OvernightNow == 946800
OvernightStarts == {918000, 932400, 945900, 982800, 986400}
OvernightItems ==
  [dtstart_utc : OvernightStarts, summary : {"remarks"},
   location : {"south lawn", "mar-a-lago"}]
OvernightFeeds ==
  UNION { { f \in [1..n -> OvernightItems] :
              \A i, j \in 1..n :
                i # j => f[i].dtstart_utc # f[j].dtstart_utc }
          : n \in 0..MaxOvernightEvents }

OvernightInit ==
  /\ Parked
  /\ pc = "overnight"
  /\ \E f \in OvernightFeeds : cyc = [t |-> OvernightNow, events |-> f]
  /\ result = [kind |-> "none"]

OvernightInfer ==
  /\ pc = "overnight"
  /\ pc' = "inferred"
  /\ result' = [kind |-> "inferred",
                got |-> get_overnight_base(cyc.t, cyc.events)]
  /\ UNCHANGED <<now, ticks, flightCache, adsbCache, calCache, tfrCache,
                 newsCache, geocodeCache, arrivalFile, tracked, cyc>>

SpecOvernight == OvernightInit /\ [][OvernightInfer]_vars

\* ========================================================================
\* main.py: the background polling loop of lifespan and its notifications
\* ========================================================================
\* main.py line 83
DEBOUNCE_NOTIFICATIONS == FALSE

\* main.py lines 85-97, keyed by (from_state, to_state)
THUNDERSTORM_COOLDOWNS ==
  [tr \in {<<"none", "moderate">>, <<"none", "severe">>,
           <<"moderate", "severe">>, <<"moderate", "none">>,
           <<"severe", "none">>} |->
     IF tr = <<"none", "moderate">>
     THEN [cooldown |-> 1800, msg |-> "Thunderstorm detected at {location}"]
     ELSE IF tr = <<"none", "severe">>
     THEN [cooldown |-> 1800,
           msg |-> "Severe thunderstorm with hail at {location}!"]
     ELSE IF tr = <<"moderate", "severe">>
     THEN [cooldown |-> 900,
           msg |-> "Thunderstorm intensifying at {location} - hail possible!"]
     ELSE [cooldown |-> 1800, msg |-> "Thunderstorm has passed at {location}"]]

\* main.py lines 109-155
should_notify_state_change(history, prev_notified, curr_state) ==
  LET appended == Append(history, curr_state)
      new_history == IF Len(appended) > 2
                     THEN SubSeq(appended, Len(appended) - 1, Len(appended))
                     ELSE appended
  IN IF Len(new_history) < 2
     THEN [notify |-> FALSE, history |-> new_history]
     ELSE [notify |-> /\ new_history[2] = new_history[1]
                      /\ curr_state # prev_notified,
           history |-> new_history]

\* a poller that never treats a ground check as a landing
should_suppress_never(was_in_flight, prev_type, curr_type) == FALSE

\* main.py lines 158-188
should_suppress_landing_notification(was_in_flight, prev_type, curr_type) ==
  IF ~was_in_flight THEN FALSE
  ELSE prev_type = "none" /\ curr_type # "none"

\* push_service.broadcast, lines 293-338: the endpoints webpush delivered to
Recipients(subs, notification_type, dead) ==
  {subs[i].endpoint : i \in {j \in DOMAIN subs :
                               /\ should_notify(subs[j], notification_type)
                               /\ subs[j].endpoint \notin dead}}

\* one call broadcast(title, message) of the polling loop: no third argument,
\* so notification_type is the default None (main.py lines 223 and 409)
Notification(title, message, subs, dead) ==
  [title |-> title, message |-> message, notification_type |-> "None",
   to |-> Recipients(subs, "None", dead)]

\* main.py lines 345-407: title and message of a precipitation change;
\* None for the branch that returns without a broadcast
precip_message(prev_type, curr_type, suppress_landing) ==
  IF suppress_landing
  THEN IF curr_type = "rain"
       THEN [title |-> "Trump Landed",
             message |-> "Trump just landed at {location} - it's raining there!"]
       ELSE IF curr_type = "snow"
       THEN [title |-> "Trump Landed",
             message |-> "Trump just landed at {location} - it's snowing there!"]
       ELSE IF curr_type = "both"
       THEN [title |-> "Trump Landed",
             message |-> "Trump just landed at {location} - rain and snow falling!"]
       ELSE None
  ELSE IF prev_type = "none" /\ curr_type = "rain"
  THEN [title |-> "It's Raining!",
        message |-> "It just started raining at {location}!"]
  ELSE IF prev_type = "none" /\ curr_type = "snow"
  THEN [title |-> "It's Snowing!",
        message |-> "It just started snowing at {location}!"]
  ELSE IF prev_type = "none" /\ curr_type = "both"
  THEN [title |-> "Rain & Snow!",
        message |-> "It just started raining and snowing at {location}!"]
  ELSE IF curr_type = "none"
  THEN [title |-> "Weather Update",
        message |-> IF prev_type = "rain"
                    THEN "It stopped raining at {location}."
                    ELSE IF prev_type = "snow"
                    THEN "It stopped snowing at {location}."
                    ELSE "Precipitation stopped at {location}."]
  ELSE IF prev_type = "rain" /\ curr_type = "snow"
  THEN [title |-> "It's Snowing!",
        message |-> "Rain turned to snow at {location}!"]
  ELSE IF prev_type = "snow" /\ curr_type = "rain"
  THEN [title |-> "It's Raining!",
        message |-> "Snow turned to rain at {location}!"]
  ELSE IF prev_type = "rain" /\ curr_type = "both"
  THEN [title |-> "Rain & Snow!",
        message |-> "Now it's raining AND snowing at {location}!"]
  ELSE IF prev_type = "snow" /\ curr_type = "both"
  THEN [title |-> "Rain & Snow!",
        message |-> "Rain started - now both rain and snow at {location}!"]
  ELSE IF prev_type = "both" /\ curr_type = "rain"
  THEN [title |-> "It's Raining!",
        message |-> "Snow stopped - just rain now at {location}."]
  ELSE IF prev_type = "both" /\ curr_type = "snow"
  THEN [title |-> "It's Snowing!",
        message |-> "Rain stopped - just snow now at {location}."]
  ELSE [title |-> "Weather Update",
        message |-> "Precipitation changed to {curr_type} at {location}!"]

\* main.py lines 191-234.  st holds app.state and the subscription file;
\* a broadcast without VAPID keys raises before any state is written
maybe_send_thunderstorm_notification(st, precip, dead, t) ==
  LET curr_state == precip.thunderstorm_state
      prev_state == st.prev_thunderstorm_state
      transition == <<prev_state, curr_state>>
      last == st.thunderstorm_last_notified[transition]
      cooldown_ok ==
        \/ last = None
        \/ t - last.some > THUNDERSTORM_COOLDOWNS[transition].cooldown
  IN IF curr_state = prev_state
     THEN [st |-> st, sent |-> << >>, raised |-> FALSE]
     ELSE IF transition \in DOMAIN THUNDERSTORM_COOLDOWNS /\ cooldown_ok
     THEN IF ~st.vapid
          THEN [st |-> st, sent |-> << >>, raised |-> TRUE]
          ELSE [st |-> [st EXCEPT
                          !.subs = broadcast(st.subs, "None", dead, TRUE, t).subs,
                          !.thunderstorm_last_notified[transition] = Some(t),
                          !.prev_thunderstorm_state = curr_state],
                sent |-> <<Notification("Thunderstorm Alert",
                                        THUNDERSTORM_COOLDOWNS[transition].msg,
                                        st.subs, dead)>>,
                raised |-> FALSE]
     ELSE [st |-> [st EXCEPT !.prev_thunderstorm_state = curr_state],
           sent |-> << >>, raised |-> FALSE]

\* main.py lines 244-269.  coords is "raise", "unknown", "in_flight" or
\* "ground"; precip is a reading of get_precip or its error dict, which has
\* no "precipitation_type" key
init_prev_raining(st, coords, precip) ==
  LET st0 == [st EXCEPT !.prev_precip_type = "None",
                        !.prev_thunderstorm_state = "none",
                        !.thunderstorm_last_notified =
                           [tr \in DOMAIN THUNDERSTORM_COOLDOWNS |-> None],
                        !.precip_history = << >>,
                        !.was_in_flight = FALSE]
  IN IF coords = "raise" THEN [st |-> st0, raised |-> TRUE]
     ELSE IF coords = "unknown" THEN [st |-> st0, raised |-> FALSE]
     ELSE IF coords = "in_flight"
     THEN [st |-> [st0 EXCEPT !.prev_precip_type = "none",
                              !.was_in_flight = TRUE],
           raised |-> FALSE]
     ELSE IF "error" \in DOMAIN precip THEN [st |-> st0, raised |-> TRUE]
     ELSE [st |-> [st0 EXCEPT
                     !.prev_precip_type = precip.precipitation_type,
                     !.prev_thunderstorm_state = precip.thunderstorm_state],
           raised |-> FALSE]

\* main.py lines 271-434
check_and_notify(st, coords, precip, dead, t) ==
  LET quiet(s) == [st |-> s, sent |-> << >>, raised |-> FALSE]
      was_in_flight == st.was_in_flight
      prev_type == st.prev_precip_type
      curr_type == precip.precipitation_type
      debounced == should_notify_state_change(st.precip_history, prev_type,
                                              curr_type)
      notify == IF DEBOUNCE_NOTIFICATIONS THEN debounced.notify
                ELSE prev_type # "None" /\ curr_type # prev_type
      suppress_landing ==
        should_suppress_landing_notification(was_in_flight, prev_type,
                                             curr_type)
      st1 == [st EXCEPT
                !.precip_history = IF DEBOUNCE_NOTIFICATIONS
                                   THEN debounced.history ELSE @,
                !.was_in_flight = FALSE]
      msg == precip_message(prev_type, curr_type, suppress_landing)
      st2 == [st1 EXCEPT
                !.subs = broadcast(st1.subs, "None", dead, TRUE, t).subs,
                !.prev_precip_type = curr_type]
      storm(s, sent) ==
        LET th == maybe_send_thunderstorm_notification(s, precip, dead, t)
        IN [st |-> th.st, sent |-> sent \o th.sent, raised |-> th.raised]
  IN IF coords = "raise" THEN [st |-> st, sent |-> << >>, raised |-> TRUE]
     ELSE IF coords = "unknown" THEN quiet(st)
     ELSE IF coords = "in_flight"
     THEN quiet([st EXCEPT !.prev_precip_type = "none",
                           !.precip_history = << >>,
                           !.was_in_flight = TRUE])
     ELSE IF "error" \in DOMAIN precip THEN quiet(st)
     ELSE IF ~notify THEN storm(st1, << >>)
     ELSE IF msg = None
     THEN quiet([st1 EXCEPT !.prev_precip_type = curr_type])
     ELSE IF ~st.vapid THEN [st |-> st1, sent |-> << >>, raised |-> TRUE]
     ELSE storm(st2, <<Notification(msg.title, msg.message, st1.subs, dead)>>)

MaxPolls == 3
CoordsOutcomes == {"raise", "unknown", "in_flight", "ground"}
Readings ==
  [precipitation_type : {"none", "rain", "snow", "both"},
   thunderstorm_state : {"none", "moderate", "severe"}]
PrecipOutcomes == Readings \cup {[error |-> TRUE]}
OptOuts ==
  {[rain_start |-> FALSE, rain_stop |-> TRUE, thunderstorm |-> TRUE],
   [rain_start |-> TRUE, rain_stop |-> FALSE, thunderstorm |-> FALSE]}
StoredSubscribers(prefs) ==
  <<[endpoint |-> "https://push.example/a", subscription_date |-> Some(0),
     preferences |-> prefs, last_delivery |-> None],
    [endpoint |-> "https://push.example/b", subscription_date |-> Some(0),
     preferences |-> None, last_delivery |-> None]>>
DeadSets == {{}, {"https://push.example/b"}}

\* the application before lifespan runs: app.state has no attribute yet, so
\* every getattr of the loop would read its default
NotifyInit ==
  /\ Parked
  /\ pc = "startup"
  /\ \E prefs \in OptOuts, vapid \in BOOLEAN :
       cyc = [prev_precip_type |-> "None", prev_thunderstorm_state |-> "none",
              thunderstorm_last_notified |->
                [tr \in DOMAIN THUNDERSTORM_COOLDOWNS |-> None],
              precip_history |-> << >>, was_in_flight |-> FALSE,
              subs |-> StoredSubscribers(prefs), vapid |-> vapid, clock |-> 0]
  /\ result = [kind |-> "none"]

\* main.py lines 436-440: await _init_prev_raining() inside try/except
InitPrevRaining ==
  /\ pc = "startup"
  /\ \E coords \in CoordsOutcomes, precip \in PrecipOutcomes :
       LET call == init_prev_raining(cyc, coords, precip)
       IN /\ cyc' = call.st
          /\ result' = [kind |-> "init", coords |-> coords, precip |-> precip,
                        before |-> cyc, sent |-> << >>,
                        raised |-> call.raised]
  /\ pc' = "loop"
  /\ UNCHANGED <<now, ticks, flightCache, adsbCache, calCache, tfrCache,
                 newsCache, geocodeCache, arrivalFile, tracked>>

\* main.py lines 445-454: one turn of _loop, the sleep included
CheckAndNotify ==
  /\ pc = "loop"
  /\ cyc.clock < MaxPolls * POLL_INTERVAL_SEC
  /\ \E coords \in CoordsOutcomes, precip \in PrecipOutcomes,
        dead \in DeadSets :
       LET call == check_and_notify(cyc, coords, precip, dead, cyc.clock)
       IN /\ cyc' = [call.st EXCEPT !.clock = @ + POLL_INTERVAL_SEC]
          /\ result' = [kind |-> "check", coords |-> coords, precip |-> precip,
                        before |-> cyc, sent |-> call.sent,
                        raised |-> call.raised]
  /\ UNCHANGED <<now, ticks, pc, flightCache, adsbCache, calCache, tfrCache,
                 newsCache, geocodeCache, arrivalFile, tracked>>

NotifyNext == InitPrevRaining \/ CheckAndNotify

SpecNotify == NotifyInit /\ [][NotifyNext]_vars

\* ========================================================================
\* push_service.py: the load-modify-save sequences on the subscription
\* file, as the route handlers and the polling loop run them
\* ========================================================================
FileCallers == {"route", "poller"}
Idle == [idle |-> TRUE]
FileCalls ==
  [op : {"add_subscription"},
   sub : [endpoint : Endpoints, valid : {TRUE}, preferences : {None}]]
  \cup [op : {"update_preferences"}, endpoint : Endpoints,
        preferences : {[rain_start |-> FALSE]}]
  \cup [op : {"remove_subscription"}, endpoint : Endpoints]
  \cup [op : {"cleanup_old_subscriptions"}, max_days : {100}]
  \cup [op : {"broadcast"}, notification_type : {"None", "rain_start"},
        dead : {{}, {"https://push.example/a"}}]

\* [s["endpoint"] for s in subs]
EndpointsOf(subs) == {subs[i].endpoint : i \in DOMAIN subs}

\* what one sequence does with the list it loaded: the list it writes back
\* (saved FALSE when it returns without _save_subscriptions), the endpoint
\* whose add returned ok, and the endpoints it removed, cleaned up or
\* dropped as dead
FileApply(call, subs, t) ==
  IF call.op = "add_subscription"
  THEN LET r == add_subscription(subs, call.sub, t)
       IN [subs |-> r.subs, saved |-> r.ret.ok,
           added |-> IF r.ret.ok THEN {call.sub.endpoint} ELSE {},
           gone |-> {}]
  ELSE IF call.op = "update_preferences"
  THEN LET r == update_preferences(subs, call.endpoint, call.preferences)
       IN [subs |-> r.subs, saved |-> r.ret # None, added |-> {}, gone |-> {}]
  ELSE IF call.op = "remove_subscription"
  THEN LET r == remove_subscription(subs, call.endpoint)
       IN [subs |-> r.subs, saved |-> r.ret, added |-> {},
           gone |-> {call.endpoint}]
  ELSE IF call.op = "cleanup_old_subscriptions"
  THEN LET r == cleanup_old_subscriptions(subs, call.max_days, t)
       IN [subs |-> r.subs, saved |-> TRUE, added |-> {},
           gone |-> EndpointsOf(subs) \ EndpointsOf(r.subs)]
  ELSE LET r == broadcast(subs, call.notification_type, call.dead, TRUE, t)
       IN [subs |-> r.subs, saved |-> TRUE, added |-> {},
           gone |-> EndpointsOf(subs) \ EndpointsOf(r.subs)]

\* every sequence on its own thread: a sequence may start at any moment
ThreadPerCall(held) == TRUE

\* main.py lines 616-725 and 445-454: every route that touches the file and
\* the polling loop are coroutines of the one event loop, and the
\* functions of push_service are plain calls without an await, so a
\* sequence that has started returns before another coroutine runs
EventLoopFree(held) == \A c \in FileCallers : held[c] = Idle

FileInit ==
  /\ Parked
  /\ pc = "file"
  /\ cyc = [file |-> << >>, held |-> [c \in FileCallers |-> Idle],
            acked |-> {}, clock |-> 0]
  /\ result = [kind |-> "none"]

\* _load_subscriptions of one sequence
FileLoad ==
  /\ pc = "file"
  /\ EventLoopFree(cyc.held)
  /\ \E c \in FileCallers, call \in FileCalls :
       /\ cyc.held[c] = Idle
       /\ c = "poller" => (call.op = "broadcast" /\ call.notification_type = "None")
       /\ cyc' = [cyc EXCEPT !.held[c] = [call |-> call, subs |-> cyc.file]]
       /\ result' = [kind |-> "load", caller |-> c]
  /\ UNCHANGED <<now, ticks, pc, flightCache, adsbCache, calCache, tfrCache,
                 newsCache, geocodeCache, arrivalFile, tracked>>

\* the rest of the sequence: the change to the loaded list, the
\* _save_subscriptions call and the return
FileSave ==
  /\ pc = "file"
  /\ \E c \in FileCallers :
       /\ cyc.held[c] # Idle
       /\ LET done == FileApply(cyc.held[c].call, cyc.held[c].subs, cyc.clock)
          IN /\ cyc' = [cyc EXCEPT
                          !.file = IF done.saved THEN done.subs ELSE @,
                          !.held[c] = Idle,
                          !.acked = (@ \ done.gone) \cup done.added]
             /\ result' = [kind |-> "save", caller |-> c,
                           call |-> cyc.held[c].call, saved |-> done.saved]
  /\ UNCHANGED <<now, ticks, pc, flightCache, adsbCache, calCache, tfrCache,
                 newsCache, geocodeCache, arrivalFile, tracked>>

FileDaysPass ==
  /\ pc = "file"
  /\ cyc.clock < MaxPushDays * 200
  /\ cyc' = [cyc EXCEPT !.clock = @ + 200]
  /\ result' = [kind |-> "none"]
  /\ UNCHANGED <<now, ticks, pc, flightCache, adsbCache, calCache, tfrCache,
                 newsCache, geocodeCache, arrivalFile, tracked>>

FileNext == FileLoad \/ FileSave \/ FileDaysPass

SpecFile == FileInit /\ [][FileNext]_vars

\* ========================================================================
\* Properties of current_coords, read off a finished call (pc = "done")
\* ========================================================================
\* x holds a value: the step that assigns it ran and gave something
Yielded(x) == x \notin {None, Unset}

Returned == pc = "done" /\ result.kind = "returned"

Airborne ==
  Yielded(cyc.plane_state) /\ cyc.plane_state.status = "airborne"
Grounded ==
  Yielded(cyc.plane_state) /\ cyc.plane_state.status = "grounded"

\* the position is strictly later than the start of the current schedule
\* event, or the schedule has no current event
NewerThanEvent ==
  \/ cyc.event = None
  \/ Yielded(cyc.event) /\ cyc.plane_state.ts > cyc.event.dtstart_utc

\* the flight step has a candidate to offer
FlightCandidate == Airborne \/ (Grounded /\ NewerThanEvent)

GroundedReturned ==
  /\ Returned
  /\ result.coords.reason \in {"plane_ground", "plane_tfr"}
  /\ result.coords.pos = cyc.plane_state.pos

UnknownReturned ==
  /\ Returned
  /\ result.coords.reason = "unknown"
  /\ result.coords.confidence = 0

\* the flight feed has no candidate: no reading, or a grounded reading
\* that is not newer than the current schedule event
NoFlightCandidate ==
  \/ ~Yielded(cyc.plane_state)
  \/ /\ Grounded
     /\ Yielded(cyc.event)
     /\ cyc.plane_state.ts <= cyc.event.dtstart_utc

\* no source of the call gave a candidate: overnight inference, schedule,
\* TFR and news gave nothing (they found nothing, or their request
\* failed), and the arrival cache is empty or expired
NothingYielded ==
  /\ NoFlightCandidate
  /\ ~Yielded(cyc.overnight_base)
  /\ ~Yielded(cyc.coords_cal)
  /\ ~Yielded(cyc.coords_tfr)
  /\ ~Yielded(cyc.news_coord)
  /\ load(arrivalFile, now) = None

\* ---- C1 ----------------------------------------------------------------
\* C1: whatever the feeds, the geocoder and the arrival file do, a call of
\* current_coords returns a candidate and never raises; when no source has
\* a candidate the value returned is the unknown candidate.
C1_NeverRaises ==
  pc = "done" =>
    /\ result.kind = "returned"
    /\ (NothingYielded => result.coords.reason = "unknown")

\* ---- C2 ----------------------------------------------------------------
\* C2: when the reading of the flight feed is airborne the call returns
\* the aircraft position with reason plane_air and in_flight true,
\* whatever the later sources hold and whether or not they fail.
C2_AirborneAlwaysWins ==
  (pc = "done" /\ Airborne) =>
    /\ result.kind = "returned"
    /\ result.coords.reason = "plane_air"
    /\ result.coords.in_flight = TRUE
    /\ result.coords.pos = cyc.plane_state.pos

C4_PriorityOrder ==
  Returned =>
    LET r == result.coords.reason
        step4 == Yielded(cyc.coords_cal) \/ Yielded(cyc.coords_tfr)
    IN /\ Airborne <=> r = "plane_air"
       /\ ~Airborne =>
            (FlightCandidate <=> r \in {"plane_ground", "plane_tfr"})
       /\ ~FlightCandidate =>
            (Yielded(cyc.overnight_base)
               <=> r \in {"overnight_dc", "overnight_fl", "overnight_nj"})
       /\ (~FlightCandidate /\ ~Yielded(cyc.overnight_base)) =>
            /\ step4 <=> result.coords \in {cyc.coords_cal, cyc.coords_tfr}
            /\ ~step4 =>
                 /\ Yielded(cyc.news_coord) <=> r = "newswire"
                 /\ r = "newswire" =>
                      /\ result.coords.pos = cyc.news_coord.pos
                      /\ result.coords.confidence = Pts(35)
                 /\ ~Yielded(cyc.news_coord) =>
                      /\ load(arrivalFile, now) # None
                           <=> result.coords = load(arrivalFile, now)
                      /\ load(arrivalFile, now) = None <=> r = "unknown"
       /\ r = "newswire" => (cyc.coords_cal = None /\ cyc.coords_tfr = None)
       /\ result.coords = load(arrivalFile, now) =>
            (cyc.coords_cal = None /\ cyc.coords_tfr = None
             /\ cyc.news_coord = None)

\* the news wire had a dateline while the arrival cache held a live
\* record, and the news-wire candidate was returned
C4_NewsBeforeArrivalWitness ==
  /\ Returned
  /\ result.coords.reason = "newswire"
  /\ load(arrivalFile, now) # None
  /\ cyc.coords_cal = None
  /\ cyc.coords_tfr = None

\* ---- C6 ----------------------------------------------------------------
\* C6: the call returns the unknown candidate (reason unknown, confidence
\* 0) exactly when the flight feed, overnight inference, the schedule
\* event, the TFR feed and the news wire all give no candidate and the
\* arrival cache is empty or expired.
C6_UnknownExactlyWhenNothing ==
  pc = "done" => (UnknownReturned <=> NothingYielded)

\* ---- C7 ----------------------------------------------------------------
\* C7: no candidate derived from an aircraft position is returned when the
\* position is older than its freshness window: 10 minutes airborne, 20
\* minutes grounded, whichever tracker supplied it.
C7_NoStalePosition ==
  (Returned /\ result.coords.reason \in {"plane_air", "plane_ground", "plane_tfr"})
    => now - cyc.plane_state.ts
         <= (IF cyc.plane_state.status = "airborne"
             THEN AIRBORNE_WINDOW_SEC ELSE GROUNDED_WINDOW_SEC)

\* ---- C8 ----------------------------------------------------------------
\* C8: the reason tag of every returned candidate is one of the thirteen
\* tags of the closed set.
ReasonTags ==
  {"plane_air", "plane_ground", "plane_tfr", "overnight_dc", "overnight_fl",
   "overnight_nj", "calendar_alias", "calendar_summary", "calendar_geocode",
   "tfr_json", "newswire", "last_arrival", "unknown"}

C8_ReasonInClosedSet == Returned => result.coords.reason \in ReasonTags

\* ---- C9 ----------------------------------------------------------------
\* C9: the confidence of every returned candidate is a whole number
\* between 0 and 100, whichever source won and however old its data.
C9_ConfidenceInteger ==
  Returned =>
    /\ result.coords.confidence % ConfScale = 0
    /\ 0 <= result.coords.confidence
    /\ result.coords.confidence <= Pts(100)

\* ========================================================================
\* Properties of the pure functions
\* ========================================================================
\* ---- C5 (under SpecSelect) ---------------------------------------------
\* C5: when a schedule candidate and a TFR candidate both exist, the TFR
\* candidate is the one returned only if its confidence is strictly
\* greater; on equal confidence the schedule candidate is returned.
C5_TieKeepsSchedule ==
  (pc = "selected" /\ Yielded(cyc.coords_cal) /\ Yielded(cyc.coords_tfr)) =>
    /\ result.kind = "returned"
    /\ result.coords \in {cyc.coords_cal, cyc.coords_tfr}
    /\ result.coords = cyc.coords_tfr
         => cyc.coords_tfr.confidence > cyc.coords_cal.confidence
    /\ cyc.coords_tfr.confidence > cyc.coords_cal.confidence
         => result.coords = cyc.coords_tfr

\* both candidates at the same confidence, the schedule candidate returned
C5_TieWitness ==
  /\ pc = "selected"
  /\ Yielded(cyc.coords_cal)
  /\ Yielded(cyc.coords_tfr)
  /\ cyc.coords_cal.confidence = cyc.coords_tfr.confidence
  /\ result.kind = "returned"
  /\ result.coords = cyc.coords_cal

\* ---- C10 (under SpecDecay) ---------------------------------------------
\* floor, ceiling (points) and rejection age (seconds) as documented
Documented(src) ==
  CASE src = "airborne" ->
         [floor |-> 75, ceiling |-> 95, reject |-> Some(10 * 60)]
    [] src = "grounded" ->
         [floor |-> 70, ceiling |-> 90, reject |-> Some(20 * 60)]
    [] src = "schedule" ->
         [floor |-> 30, ceiling |-> 70, reject |-> None]
    [] src = "arrival" ->
         [floor |-> 10, ceiling |-> 30, reject |-> Some(7 * DAY_SEC)]

\* C10: each decay function (airborne, grounded, schedule, arrival cache)
\* never increases with age, gives only values between its documented
\* floor and ceiling (75-95, 70-90, 30-70, 10-30), and gives no value
\* beyond its rejection age (10 minutes, 20 minutes, none, 7 days).
C10_DecayLaw ==
  pc = "decayed" =>
    LET doc == Documented(cyc.src)
        v == result.at
        w == result.later
    IN /\ v = None => w = None
       /\ (v # None /\ w # None) => w.some <= v.some
       /\ v # None => (Pts(doc.floor) <= v.some /\ v.some <= Pts(doc.ceiling))
       /\ doc.reject # None => (cyc.age > doc.reject.some => v = None)
       /\ doc.reject = None => v # None

\* ========================================================================
\* Properties of the change detector, read off a finished call
\* ========================================================================
\* events are enabled: the start-up flag was already cleared when the
\* finished call began
EventsEnabled == pc = "done" /\ ~result.before.is_initializing

Emitted(e) == e \in result.events

\* C11: with events enabled, a call emits flight-detected exactly when the
\* flight status it observed is airborne and the status the preceding call
\* observed was not airborne
C11_FlightDetectedOnTransition ==
  EventsEnabled =>
    (Emitted("flight_detected")
       <=> (Airborne /\ cyc.last_status # "airborne"))

\* C12: with events enabled, a call emits landing-detected exactly when the
\* flight status it observed is grounded and the status the preceding call
\* observed was airborne
C12_LandingDetectedOnTransition ==
  EventsEnabled =>
    (Emitted("landing_detected")
       <=> (Grounded /\ cyc.last_status = "airborne"))

\* C13: with events enabled, a call that follows a call with a winner emits
\* location-changed exactly when the reason tag of its own winner differs
\* from the reason tag of that preceding winner
C13_LocationChangedOnNewReason ==
  (EventsEnabled /\ Returned /\ cyc.last_reason # "None") =>
    (Emitted("location_changed")
       <=> result.coords.reason # cyc.last_reason)

\* a winner with another reason tag than the preceding one was reported
C13_ChangeWitness ==
  /\ EventsEnabled /\ Returned /\ cyc.last_reason # "None"
  /\ result.coords.reason # cyc.last_reason
  /\ Emitted("location_changed")

\* C14: a call made while is_initializing is true emits no flight-detected,
\* landing-detected, location-changed or low-confidence event
C14_SilentWhileInitializing ==
  (pc = "done" /\ result.before.is_initializing) => result.events = {}

\* the start-up call returned an airborne position and emitted nothing
C14_StartUpAirborneWitness ==
  /\ Returned /\ result.before.is_initializing
  /\ Airborne /\ result.coords.reason = "plane_air"
  /\ result.events = {}

\* ========================================================================
\* Properties of the overnight inference
\* ========================================================================
\* the region whose fixed base the inference handed back
InferredRegion ==
  LET hit == {b \in DOMAIN OVERNIGHT_BASES :
                /\ OVERNIGHT_BASES[b].pos = cyc.overnight_base.pos
                /\ OVERNIGHT_BASES[b].name = cyc.overnight_base.name}
  IN OVERNIGHT_BASES[CHOOSE b \in hit : TRUE].region

RegionTag(region) ==
  CASE region = "dc" -> "overnight_dc"
    [] region = "fl" -> "overnight_fl"
    [] region = "nj" -> "overnight_nj"

\* C15: when the flight steps give no candidate and the overnight inference
\* succeeds, the call returns the base of the inferred region with
\* confidence 58 and the region's reason tag, and no schedule, TFR,
\* news-wire or arrival-cache candidate is consulted
C15_OvernightBaseReturned ==
  (pc = "done" /\ Yielded(cyc.overnight_base)) =>
    /\ ~FlightCandidate
    /\ Returned
    /\ result.coords.pos = cyc.overnight_base.pos
    /\ result.coords.confidence = Pts(58)
    /\ result.coords.reason = RegionTag(InferredRegion)
    /\ cyc.coords_cal = Unset /\ cyc.coords_tfr = Unset
    /\ cyc.news_coord = Unset

\* a night between two Mar-a-Lago items, with a schedule item that would
\* have given a candidate of its own
C15_FloridaWitness ==
  /\ Returned /\ Yielded(cyc.overnight_base)
  /\ result.coords.reason = "overnight_fl"
  /\ result.coords.pos = "MarALago"
  /\ Yielded(cyc.event)

\* an item of the downloaded schedule that the alias table resolves
ResolvedItem(ev) ==
  ev.location # "" /\ AliasLookup(ev.location) # None

\* started after 17:00 local time, within the 14 hours before t
EveningItem(ev, t) ==
  /\ LocalHour(ev.dtstart_utc) >= 17
  /\ ev.dtstart_utc < t /\ t - ev.dtstart_utc <= 14 * HOUR_SEC

\* starts before 12:00 local time, within the 18 hours after t
MorningItem(ev, t) ==
  /\ LocalHour(ev.dtstart_utc) < 12
  /\ t < ev.dtstart_utc /\ ev.dtstart_utc - t <= 18 * HOUR_SEC

\* C16: the overnight inference yields a base only between 21:00 and 08:00
\* local time and only when the schedule holds an evening item and a
\* morning item that both resolve through the alias table into the same
\* one of the three regions
C16_OvernightOnlyOnPattern ==
  (pc = "done" /\ Yielded(cyc.overnight_base)) =>
    /\ LocalHour(now) >= 21 \/ LocalHour(now) < 8
    /\ \E i, j \in DOMAIN calCache.val :
         LET ev == calCache.val[i]
             mo == calCache.val[j]
         IN /\ EveningItem(ev, now) /\ ResolvedItem(ev)
            /\ MorningItem(mo, now) /\ ResolvedItem(mo)
            /\ get_region(AliasLookup(ev.location).pos) \in {"dc", "fl", "nj"}
            /\ get_region(AliasLookup(ev.location).pos)
                 = get_region(AliasLookup(mo.location).pos)
            /\ get_region(AliasLookup(ev.location).pos) = InferredRegion

\* a night between two Bedminster items: the inference gave the New Jersey
\* base
C16_BedminsterNightWitness ==
  /\ pc = "done" /\ Yielded(cyc.overnight_base)
  /\ InferredRegion = "nj"
  /\ LocalHour(now) >= 21
  /\ \E i, j \in DOMAIN calCache.val :
       /\ EveningItem(calCache.val[i], now) /\ ResolvedItem(calCache.val[i])
       /\ MorningItem(calCache.val[j], now) /\ ResolvedItem(calCache.val[j])

\* ========================================================================
\* Properties of the schedule branch
\* ========================================================================
CalendarTags == {"calendar_alias", "calendar_summary", "calendar_geocode"}

\* the flight feed reports grounded with a timestamp older than the start
\* of the current schedule event
GroundedOlderThanEvent ==
  /\ pc = "done" /\ Grounded /\ Yielded(cyc.event)
  /\ cyc.plane_state.ts < cyc.event.dtstart_utc

\* C17 as stated: grounded and older than the current schedule event, the
\* call returns a candidate whose reason begins with calendar_
C17_OlderGroundedGivesCalendar ==
  GroundedOlderThanEvent =>
    (Returned /\ result.coords.reason \in CalendarTags)

\* C17 amended: grounded and older than the current schedule event, the
\* call never returns the grounded position, and it returns a calendar_
\* candidate whenever the overnight inference gives nothing and the
\* schedule event resolves to a candidate
C17_OlderGroundedSkipsFlightStep ==
  GroundedOlderThanEvent =>
    /\ ~GroundedReturned
    /\ (cyc.overnight_base = None /\ Yielded(cyc.coords_cal)) =>
         /\ Returned
         /\ result.coords.reason \in CalendarTags
         /\ result.coords = cyc.coords_cal

\* a grounded position older than an aliased schedule item lost to it
C17_FreshnessWitness ==
  /\ GroundedOlderThanEvent
  /\ Returned /\ result.coords.reason = "calendar_alias"

\* ========================================================================
\* Properties of the geocoding disambiguation
\* ========================================================================
\* the candidate can be reached from context event c at 800 km/h in the
\* time between the two events, taken as at least 0.1 h
ReachableFrom(c, km) ==
  LET gap == Max(Abs(c.dt - cyc.target_dt), 360)
  IN Abs(c.km - km) * 3600 <= gap * 800

Reachable(km) ==
  \E i \in DOMAIN cyc.context_events :
    ReachableFrom(cyc.context_events[i], km)

ReachableCandidates ==
  {i \in DOMAIN cyc.results : Reachable(cyc.results[i].km)}

\* two or more raw candidates and at least one context event
Disambiguated ==
  /\ pc = "geocoded"
  /\ Len(cyc.results) >= 2
  /\ Len(cyc.context_events) >= 1

\* C18: with two or more raw candidates and a context event, while some
\* candidate is reachable the chosen one is reachable and no reachable
\* candidate is nearer to the centroid of the context events, whatever the
\* importance scores
C18_NearestReachableChosen ==
  (Disambiguated /\ ReachableCandidates # {}) =>
    /\ \E i \in ReachableCandidates : result.got.result = cyc.results[i]
    /\ \A i \in ReachableCandidates :
         centroid_distance(cyc.context_events, result.got.result.km)
           <= centroid_distance(cyc.context_events, cyc.results[i].km)

\* an unreachable candidate that is nearer to the centroid and has the
\* higher importance lost to a reachable one
C18_UnreachableNearerWitness ==
  /\ Disambiguated
  /\ \E i \in DOMAIN cyc.results :
       /\ i \notin ReachableCandidates
       /\ cyc.results[i].importance > result.got.result.importance
       /\ centroid_distance(cyc.context_events, cyc.results[i].km)
            < centroid_distance(cyc.context_events, result.got.result.km)
  /\ Reachable(result.got.result.km)

\* context events exist and no raw candidate is reachable from any of them
AllInfeasible ==
  /\ pc = "geocoded"
  /\ Len(cyc.context_events) >= 1
  /\ ReachableCandidates = {}

\* no raw candidate has a higher importance than the result
HighestImportanceChosen ==
  /\ \E i \in DOMAIN cyc.results : result.got.result = cyc.results[i]
  /\ \A i \in DOMAIN cyc.results :
       cyc.results[i].importance <= result.got.result.importance

\* C19 as stated: when context events exist and every raw candidate is
\* infeasible, the result is the raw candidate of highest importance and
\* it is flagged all_infeasible
C19_AllInfeasibleFlagged ==
  AllInfeasible =>
    (HighestImportanceChosen /\ result.got.alert = "all_infeasible")

\* C19 amended: the same once the reply holds two or more raw candidates;
\* a single infeasible candidate is returned without the all_infeasible
\* flag
C19_AllInfeasibleOfSeveral ==
  AllInfeasible =>
    /\ HighestImportanceChosen
    /\ result.got.alert = "all_infeasible" <=> Len(cyc.results) >= 2

\* two infeasible candidates: the second has the higher importance and is
\* the one returned, with the flag
C19_SecondOfTwoWitness ==
  /\ AllInfeasible
  /\ Len(cyc.results) = 2
  /\ cyc.results[2].importance > cyc.results[1].importance
  /\ result.got.result = cyc.results[2]
  /\ result.got.alert = "all_infeasible"

GroundedWins ==
  /\ pc' = "done" /\ pc # "done"
  /\ result'.kind = "returned"
  /\ result'.coords.reason \in {"plane_ground", "plane_tfr"}

\* C21: a step changes last_arrival.json exactly when it finishes a call
\* won by a grounded-aircraft candidate, and the file then holds that
\* winner's position, written at that moment, and nothing else
C21_ArrivalWrittenByGroundedWinner ==
  [][ /\ GroundedWins =>
           arrivalFile' = [file |-> "ok", pos |-> result'.coords.pos,
                           ts |-> now]
      /\ arrivalFile' # arrivalFile => GroundedWins ]_vars

\* a second grounded winner replaced the record an earlier one had written
C21_OverwrittenWitness ==
  /\ GroundedReturned
  /\ ticks >= 1
  /\ cyc.last_reason \in {"plane_ground", "plane_tfr"}
  /\ arrivalFile = [file |-> "ok", pos |-> result.coords.pos, ts |-> now]

\* C22: load accepts a record aged one second less than seven days and
\* rejects every record older than seven days, by however little
C22_CutoffToTheSecond ==
  pc = "loaded" =>
    /\ cyc.age_ms = 7 * 86400 * 1000 - 1000 => result.got # None
    /\ cyc.age_ms > 7 * 86400 * 1000 => result.got = None

\* a record a tenth of a second past the cutoff was rejected
C22_TenthPastCutoffWitness ==
  /\ pc = "loaded"
  /\ cyc.age_ms = 7 * 86400 * 1000 + 100
  /\ result.got = None

\* the second of two consecutive calls has finished
SecondCallDone == pc = "done" /\ cyc.world # Unset /\ cyc.first # Unset

\* C23: with the answers of every feed and of the geocoder and the clock
\* held fixed, the second of two consecutive calls of current_coords ends as
\* the first did and, when they return, returns the same candidate,
\* whatever the caches, the arrival file and the change detector held when
\* the first call started and whatever the first call left in them.
C23_SecondCallSameCandidate ==
  SecondCallDone =>
    /\ result.kind = cyc.first.kind
    /\ result.kind = "returned" => result.coords = cyc.first.coords

\* at process start the first call asked the trackers and wrote the arrival
\* file; the second, served from the cache the first filled, returns the
\* grounded jet again
C23_ServedFromFilledCacheWitness ==
  /\ SecondCallDone
  /\ ticks = 0
  /\ result.kind = "returned"
  /\ result.coords.reason = "plane_ground"
  /\ flightCache.ts = now
  /\ arrivalFile = [file |-> "ok", pos |-> result.coords.pos, ts |-> now]

\* the endpoints stored, in file order
StoredEndpoints(subs) == [i \in DOMAIN subs |-> subs[i].endpoint]

NoTwoSameEndpoint(subs) ==
  \A i, j \in DOMAIN subs : subs[i].endpoint = subs[j].endpoint => i = j

\* the last operation was add_subscription for an endpoint already stored
ReAdded ==
  /\ result.kind = "add_subscription"
  /\ result.arg.valid
  /\ IndexOf(result.before, result.arg.endpoint) # 0

\* C24: after any sequence of add_subscription, update_preferences,
\* remove_subscription, broadcast and cleanup_old_subscriptions, no two
\* stored subscriptions have the same endpoint; adding an endpoint that is
\* already stored adds no entry and refreshes the date of the stored one,
\* leaving everything else as it was.
C24_OneEntryPerEndpoint ==
  pc = "push" =>
    /\ NoTwoSameEndpoint(cyc.subs)
    /\ ReAdded =>
         LET i == IndexOf(result.before, result.arg.endpoint)
         IN /\ StoredEndpoints(cyc.subs) = StoredEndpoints(result.before)
            /\ cyc.subs[i].subscription_date = Some(cyc.clock)
            /\ cyc.subs =
                 [result.before EXCEPT ![i].subscription_date = Some(cyc.clock)]

\* an endpoint stored on day 0 is added again 200 days later, next to
\* another stored endpoint: still two entries, the date moved
C24_RefreshedWitness ==
  /\ pc = "push"
  /\ ReAdded
  /\ Len(cyc.subs) = 2
  /\ cyc.clock = 200
  /\ LET i == IndexOf(result.before, result.arg.endpoint)
     IN /\ result.before[i].subscription_date = Some(0)
        /\ cyc.subs[i].subscription_date = Some(200)

\* a call of current_coords is between its first and its last line
InCall(p) == p \in {"thread", "fetch", "store", "cascade", "news"}

\* C25: get_plane_state, whose _opensky_state drives a loop of its own with
\* asyncio.run, is invoked on a worker thread only, never on the thread of
\* the application's event loop, whichever code calls it.
C25_PlaneStateOnWorkerThreadOnly ==
  Serving => cyc.serve.threads \subseteq {"worker"}

\* C26: at most one call of current_coords is executing at any time: while
\* one task is inside the call, the other is not.
C26_OneCycleAtATime ==
  Serving => ~(InCall(pc) /\ InCall(cyc.serve.other.pc))

\* the status of the newest reading obtained before reading k that had one
RECURSIVE StatusBefore(_, _)
StatusBefore(feed, k) ==
  IF k <= 1 THEN "None"
  ELSE IF feed[k - 1] # "None" THEN feed[k - 1]
  ELSE StatusBefore(feed, k - 1)

\* a call of the running server has returned and not yet been accounted for
ServedReturn == Serving /\ pc = "done" /\ result.kind = "returned"

\* C27: whatever the interleaving of overlapping calls, the change detector
\* consumes the flight readings in the order the feed gave them: a call
\* that returns holds a reading no older than the newest one consumed,
\* landing_detected is emitted only when the feed went from airborne to
\* grounded at that reading, and a call returning with an older reading
\* emits neither flight_detected nor landing_detected.
C27_ReadingsConsumedInFeedOrder ==
  ServedReturn =>
    /\ cyc.serve.seq >= cyc.serve.consumed
    /\ Emitted("landing_detected") =>
         /\ cyc.serve.feed[cyc.serve.seq] = "grounded"
         /\ StatusBefore(cyc.serve.feed, cyc.serve.seq) = "airborne"
    /\ cyc.serve.seq < cyc.serve.consumed =>
         ~Emitted("flight_detected") /\ ~Emitted("landing_detected")

\* C28: the expiry check, the fetch and the overwrite of a TTL cache are
\* not interleaved with another call's access to it, so within one TTL
\* window (the clock stands still while the server is watched) the body of
\* get_plane_state runs at most once.
C28_OneFetchPerWindow ==
  Serving => cyc.serve.fetches <= 1

\* C29: event emission is enabled (is_initializing cleared) only after a
\* call of current_coords has run to completion since process start, which
\* leaves a previous reason behind; so no location_changed event is ever
\* emitted by a call that found the previous reason never initialised.
C29_EnabledAfterCompletedCycle ==
  /\ ~tracked.is_initializing => tracked.prev_location_reason # "None"
  /\ (Returned /\ Emitted("location_changed")) =>
       result.before.prev_location_reason # "None"

\* a plane_air or plane_ground candidate has been returned
PlaneReturned ==
  Returned /\ result.coords.reason \in {"plane_air", "plane_ground"}

\* C30: whenever a plane_air or plane_ground candidate is returned, its
\* confidence is the decay value of the position's age at the moment of
\* return (airborne: 95 up to 5 min, then linear to 75 at 10 min; grounded:
\* 90 up to 10 min, then linear to 70 at 20 min), whichever tracker gave
\* the position and whether or not it came out of the adapter's TTL cache.
\* Ages beyond the decay's window have no value to compare with.
C30_PlaneConfidenceForAgeAtReturn ==
  PlaneReturned =>
    LET at_return == calculate_confidence(now - cyc.plane_state.ts,
                                          result.coords.reason = "plane_air")
    IN at_return # None => result.coords.confidence = Pts(at_return.some)

\* ---- C31 ---------------------------------------------------------------
\* what the call that has just finished asked over the network: the clock
\* moves between two calls, so a memo stamped `now` was filled by this call
ScheduleRequested ==
  \/ calCache.ts = now
  \/ result.kind = "raised" /\ result.origin = "schedule_feed"
TfrRequested == TFR_ENABLED /\ tfrCache.ts = now
NewsRequested ==
  \/ newsCache.ts = now
  \/ result.kind = "raised" /\ result.origin = "news_feed"

OvernightReasons == {"overnight_dc", "overnight_fl", "overnight_nj"}
ScheduleReasons == {"calendar_alias", "calendar_summary", "calendar_geocode"}

\* C31: a call won at one step of the cascade has asked no source of a
\* later step: with an airborne winner the schedule feed, the geocoder, the
\* TFR feed and the news wire were not asked; with a grounded winner or an
\* overnight base the geocoder, the TFR feed (overnight) and the news wire
\* were not; with a schedule or TFR winner the news wire was not.
C31_LaterSourcesNotRead ==
  Returned =>
    LET r == result.coords.reason
    IN /\ r = "plane_air" =>
            /\ ~ScheduleRequested
            /\ ~cyc.geocoder_called
            /\ ~TfrRequested
            /\ ~NewsRequested
       /\ r \in {"plane_ground", "plane_tfr"} =>
            ~cyc.geocoder_called /\ ~NewsRequested
       /\ r \in OvernightReasons =>
            ~cyc.geocoder_called /\ ~TfrRequested /\ ~NewsRequested
       /\ r \in ScheduleReasons \cup {"tfr_json"} => ~NewsRequested

\* ---- C32 ---------------------------------------------------------------
\* the call made for a diagnostic request is about to start / has finished
DebugStarts == pc = "idle" /\ cyc.traced
DebugDone == pc = "done" /\ cyc.traced

\* C32: when a diagnostic request starts its call of current_coords, the
\* memo of every source (flight, adsb.fi, schedule, TFR, news wire,
\* geocoder) is empty; so the reading and the schedule the call worked on
\* were fetched by the call itself.
C32_DebugStartsFromEmptyCaches ==
  /\ DebugStarts =>
       /\ flightCache = EmptySlot
       /\ adsbCache = EmptySlot
       /\ calCache = EmptySlot
       /\ tfrCache = EmptySlot
       /\ newsCache = EmptySlot
       /\ \A q \in GeoQueries : geocodeCache[q] = EmptySlot
  /\ DebugDone =>
       /\ flightCache.ts = now
       /\ ScheduleRequested

\* ---- C33 ---------------------------------------------------------------
\* no request of the log follows a failed one (`failed`: the reply that
\* stands for a request that raised)
NothingAfterFailure(log, failed) ==
  \A i \in DOMAIN log : log[i] = failed => i = Len(log)

QualifyingEvening(t, events) ==
  {i \in DOMAIN events :
     /\ LocalHour(events[i].dtstart_utc) >= 17
     /\ 0 < t - events[i].dtstart_utc
     /\ t - events[i].dtstart_utc <= 14 * HOUR_SEC
     /\ AliasLookup(events[i].location) # None}
QualifyingMorning(t, events) ==
  {i \in DOMAIN events :
     /\ LocalHour(events[i].dtstart_utc) < 12
     /\ 0 < events[i].dtstart_utc - t
     /\ events[i].dtstart_utc - t <= 18 * HOUR_SEC
     /\ AliasLookup(events[i].location) # None}
Latest(events, S) ==
  CHOOSE i \in S : \A j \in S : events[j].dtstart_utc <= events[i].dtstart_utc
Earliest(events, S) ==
  CHOOSE i \in S : \A j \in S : events[i].dtstart_utc <= events[j].dtstart_utc
RegionOf(ev) == get_region(AliasLookup(ev.location).pos)

\* C34: in the overnight hours, with a qualifying evening and a qualifying
\* morning item in the schedule, the inference compares the region of the
\* latest qualifying evening item with the region of the earliest
\* qualifying morning item, whatever the order of the list: a base is
\* inferred exactly when those two regions are the same known region, and
\* it is the base of that region.
C34_LatestEveningEarliestMorning ==
  pc = "inferred" =>
    LET evening == QualifyingEvening(cyc.t, cyc.events)
        morning == QualifyingMorning(cyc.t, cyc.events)
    IN (evening # {} /\ morning # {}) =>
         LET er == RegionOf(cyc.events[Latest(cyc.events, evening)])
             mr == RegionOf(cyc.events[Earliest(cyc.events, morning)])
         IN /\ result.got # None <=> (er # "None" /\ er = mr)
            /\ result.got # None => get_region(result.got.pos) = er

\* ---- C35 ---------------------------------------------------------------
\* the provider gave nothing: each search made raised or found nothing
ProviderGaveNothing ==
  /\ cyc.us.kind = "error" \/ cyc.us.results = << >>
  /\ cyc.intl # "hit"

\* the US search gave candidates and none of them can be reached from any
\* context event
EveryCandidateInfeasible ==
  /\ cyc.us.kind = "ok"
  /\ Len(cyc.us.results) > 0
  /\ Len(cyc.context_events) > 0
  /\ \A i \in DOMAIN cyc.us.results :
       ~is_physically_feasible(cyc.us.results[i].km, cyc.context_events,
                               cyc.event.dtstart_utc)

\* C35: when the geocoding of a schedule item's location fails (the
\* provider gives nothing or raises, or every candidate it gave is
\* infeasible), _smart_geocode gives None and no geocoded schedule
\* candidate is built.
C35_FailureGivesNoCandidate ==
  (pc = "looked_up" /\ (ProviderGaveNothing \/ EveryCandidateInfeasible)) =>
    /\ result.geocoded = None
    /\ result.coords_cal = None

\* C35 as the code has it: the geocoder gives None, and no geocoded
\* schedule candidate is built, exactly when the provider gave nothing
\* (the US search raised or found nothing and the unrestricted search
\* raised or found nothing as well).  When every candidate of the US
\* search is infeasible the geocoder still gives one of them (of several,
\* the one of highest importance) and the calendar_geocode candidate is
\* built from it.
C35_NoneOnlyWhenProviderGaveNothing ==
  pc = "looked_up" =>
    /\ result.geocoded = None <=> ProviderGaveNothing
    /\ result.coords_cal = None <=> result.geocoded = None
    /\ result.geocoded # None =>
         /\ result.coords_cal.reason = "calendar_geocode"
         /\ result.coords_cal.pos = result.geocoded.km
    /\ EveryCandidateInfeasible =>
         /\ result.geocoded \in {cyc.us.results[i] : i \in DOMAIN cyc.us.results}
         /\ Len(cyc.us.results) > 1 =>
              result.geocoded = highest_importance(cyc.us.results)

\* the US search raised, the unrestricted search found nothing: no
\* geocoded candidate
C35_BothSearchesFailedWitness ==
  /\ pc = "looked_up"
  /\ cyc.us.kind = "error"
  /\ cyc.intl = "empty"
  /\ result.geocoded = None
  /\ result.coords_cal = None

\* ---- C36 ---------------------------------------------------------------
PlaneReasons == {"plane_air", "plane_ground", "plane_tfr"}

\* the steps of the cascade a call returning with reason r has evaluated,
\* in the order of evaluation
StepsEvaluated(r) ==
  <<"flight">>
  \o (IF r \in PlaneReasons THEN << >> ELSE <<"overnight">>)
  \o (IF r \in PlaneReasons \cup OvernightReasons THEN << >>
      ELSE <<"schedule", "tfr">>)
  \o (IF r \in {"newswire", "last_known", "unknown"}
      THEN <<"news">> ELSE << >>)
  \o (IF r \in {"last_known", "unknown"} THEN <<"arrival">> ELSE << >>)

\* the trace entries that name a step
EntriesOf(step) ==
  CASE step = "flight" -> {"plane", "plane_ground"}
    [] step = "overnight" -> {"overnight_base"}
    [] step = "schedule" ->
         {"calendar_event", "geocode_context", "geocode_result"}
    [] step = "tfr" -> {"vip_json"}
    [] step = "news" -> {"news_probe"}
    [] step = "arrival" -> {"last_known"}

\* position of the first entry of the trace that names the step, 0 if none
FirstEntry(trace_log, step) ==
  LET at == {i \in DOMAIN trace_log : trace_log[i] \in EntriesOf(step)}
  IN IF at = {} THEN 0 ELSE CHOOSE i \in at : \A j \in at : i <= j

\* C36: a call that was given a trace list and has returned leaves, for
\* every cascade step it evaluated (the winner's included), at least one
\* entry naming that step, and the steps' first entries stand in the order
\* the steps were evaluated.
C36_EveryEvaluatedStepTraced ==
  (DebugDone /\ Returned) =>
    LET steps == StepsEvaluated(result.coords.reason)
    IN /\ \A k \in DOMAIN steps : FirstEntry(cyc.trace_log, steps[k]) # 0
       /\ \A k, m \in DOMAIN steps :
            k < m => FirstEntry(cyc.trace_log, steps[k])
                       < FirstEntry(cyc.trace_log, steps[m])

\* ------------------------------------------------------------------------
\* The polling loop (SpecNotify), read off the last start-up or check
\* ------------------------------------------------------------------------
\* the last step was a check on the ground whose weather reading succeeded
GroundReading ==
  /\ result.kind = "check"
  /\ result.coords = "ground"
  /\ "error" \notin DOMAIN result.precip

\* C37: when the last-notified precipitation state is unset, a polling
\* cycle that obtains a ground location and a successful weather reading
\* records the precipitation type of that reading as the last-notified state
C37_GroundReadingRecordsState ==
  (GroundReading /\ result.before.prev_precip_type = "None")
    => cyc.prev_precip_type = result.precip.precipitation_type

\* the preference a notification of the polling loop falls under: the
\* thunderstorm alerts, the start of precipitation, the end of precipitation
Thunderstorm(n) == n.title = "Thunderstorm Alert"
RainStart(n) ==
  /\ ~Thunderstorm(n)
  /\ result.before.prev_precip_type = "none"
  /\ result.precip.precipitation_type # "none"
RainStop(n) ==
  /\ ~Thunderstorm(n)
  /\ result.precip.precipitation_type = "none"
OptedIn(sub, n) ==
  /\ Thunderstorm(n) => PrefGet(PrefsOf(sub), "thunderstorm", TRUE)
  /\ RainStart(n) => PrefGet(PrefsOf(sub), "rain_start", TRUE)
  /\ RainStop(n) => PrefGet(PrefsOf(sub), "rain_stop", TRUE)

\* C38: every notification the polling loop sends for a rain-start,
\* rain-stop or thunderstorm transition is delivered only to subscribers
\* whose stored preferences opt in to that kind of notification
C38_DeliveredOnlyToOptedIn ==
  result.kind = "check" =>
    \A k \in DOMAIN result.sent :
      \A i \in DOMAIN result.before.subs :
        result.before.subs[i].endpoint \in result.sent[k].to
          => OptedIn(result.before.subs[i], result.sent[k])

\* the first ground check with a reading after in-flight cycles, and the
\* reading shows precipitation
LandedInPrecipitation ==
  /\ GroundReading
  /\ result.before.was_in_flight
  /\ result.precip.precipitation_type # "none"
JustStarted ==
  {"It just started raining at {location}!",
   "It just started snowing at {location}!",
   "It just started raining and snowing at {location}!"}
\* a ground check with no landing before it that finds precipitation
\* starting, with the push keys configured
StartedOnGround ==
  /\ GroundReading
  /\ ~result.before.was_in_flight
  /\ result.before.prev_precip_type = "none"
  /\ result.precip.precipitation_type # "none"
  /\ result.before.vapid

\* C39: the first ground check with a precipitation reading after in-flight
\* cycles sends no "it just started" notification and clears the
\* just-landed flag; a later start of precipitation is notified as such
C39_LandingNeverJustStarted ==
  /\ LandedInPrecipitation =>
       /\ \A k \in DOMAIN result.sent : result.sent[k].message \notin JustStarted
       /\ ~cyc.was_in_flight
  /\ StartedOnGround =>
       /\ result.sent # << >>
       /\ result.sent[1].message \in JustStarted

\* a landing in precipitation was announced as a landing
C39_LandedAnnouncedWitness ==
  /\ LandedInPrecipitation
  /\ result.sent # << >>
  /\ result.sent[1].title = "Trump Landed"
  /\ ~cyc.was_in_flight

\* ------------------------------------------------------------------------
\* The subscription file (SpecFile)
\* ------------------------------------------------------------------------
\* the sequences that have loaded the file and not yet returned
InSequence == {c \in FileCallers : cyc.held[c] # Idle}

====
